---- MODULE Spec2Model ----
(***************************************************************************)
(* flakehunt: the aggregation and classification engine                    *)
(* (internal/classify), fed by the run records a session collects.         *)
(*                                                                         *)
(* Durations are time.Duration values, whole nanoseconds.  A float64 that  *)
(* the code computes is carried exactly: a flake rate as the reduced       *)
(* fraction it is the correctly rounded value of, and the wasted-time      *)
(* product as an IEEE-754 double (53-bit significand, round to nearest,    *)
(* ties to even) held in three 18-bit limbs.                               *)
(***************************************************************************)
EXTENDS Integers, Sequences, FiniteSets, TLC

(***************************************************************************)
(* Bounds of the model.                                                    *)
(***************************************************************************)
\* Run records in one list handed to Aggregate.
MaxRuns == 3
\* Words in one failure message given to DetectSignature.
MaxWords == 2
\* The greatest --runs of a session.
MaxSessionRuns == 3
\* The greatest --timeout of a session, in ticks of the clock; the clock stops there.
MaxTicks == 2
\* The greatest --keep-runs of a session.
MaxKeep == 1
\* The test cases a file of an artifact set reports, at most.
MaxCases == 2
\* The length of the lists given to TopFlakes and FilterByClassification, at
\* most, and the number of flakes asked for, at most.
MaxListed == 3
\* The runs of a session in which every run reports one test twice: enough
\* for a test to have more evidence than sort.Slice sorts by insertion.
MaxEvidenceRuns == 7

(***************************************************************************)
(* model.Outcome, model.Classification, model.FailureSignature.            *)
(***************************************************************************)
OutcomePass == "pass"
OutcomeFail == "fail"
OutcomeSkip == "skip"

ClassificationFlaky == "flaky"
ClassificationStable == "stable"
ClassificationDeterministicFail == "deterministic_fail"

SignatureTimeout == "TIMEOUT"
SignatureSelector == "SELECTOR"
SignatureNetwork == "NETWORK"
SignatureDOMDetach == "DOM_DETACH"
SignatureAssertion == "ASSERTION"
SignatureUnknown == "UNKNOWN"

(***************************************************************************)
(* Strings.  Go compares, searches and cuts a string byte by byte: Bytes   *)
(* gives the bytes of every string of the model, FromBytes the string of   *)
(* a byte sequence.  A character outside ASCII is written [U+....] in the  *)
(* name of a string and as its UTF-8 bytes in Bytes.                       *)
(***************************************************************************)
Strings ==
    {"", "a::t", "Z::t", "timed  out", "timed out",
     "assert failed", "timeout", "timed", "out", "exceeded",
     "time", "selector", "element", "not", "found",
     "cy.get", "network", "econnrefused", "fetch", "failed",
     "detached", "stale", "expect", "assert", "tobe",
     "toequal", "d", " ", "...", "unexpected", "TIMEOUT", "boom",
     "jest", "npx", "cypress", "run", "--ci", "--runInBand",
     "--maxWorkers", "--maxWorkers=2", "-w", "-w4",
     "--workerThreads", "-i", "a.xml", "b.xml", "B.xml", "jest.json",
     "networ[U+212A]", "[U+017F]elector", "assert[U+00A0]failed"}

Bytes(s) ==
    CASE s = "a::t"           -> <<97, 58, 58, 116>>
      [] s = "Z::t"           -> <<90, 58, 58, 116>>
      [] s = "timed  out"     -> <<116, 105, 109, 101, 100, 32, 32, 111, 117, 116>>
      [] s = "timed out"      -> <<116, 105, 109, 101, 100, 32, 111, 117, 116>>
      [] s = "assert failed"  -> <<97, 115, 115, 101, 114, 116, 32, 102, 97, 105, 108, 101, 100>>
      [] s = "timeout"        -> <<116, 105, 109, 101, 111, 117, 116>>
      [] s = "timed"          -> <<116, 105, 109, 101, 100>>
      [] s = "out"            -> <<111, 117, 116>>
      [] s = "exceeded"       -> <<101, 120, 99, 101, 101, 100, 101, 100>>
      [] s = "time"           -> <<116, 105, 109, 101>>
      [] s = "selector"       -> <<115, 101, 108, 101, 99, 116, 111, 114>>
      [] s = "element"        -> <<101, 108, 101, 109, 101, 110, 116>>
      [] s = "not"            -> <<110, 111, 116>>
      [] s = "found"          -> <<102, 111, 117, 110, 100>>
      [] s = "cy.get"         -> <<99, 121, 46, 103, 101, 116>>
      [] s = "network"        -> <<110, 101, 116, 119, 111, 114, 107>>
      [] s = "econnrefused"   -> <<101, 99, 111, 110, 110, 114, 101, 102, 117, 115, 101, 100>>
      [] s = "fetch"          -> <<102, 101, 116, 99, 104>>
      [] s = "failed"         -> <<102, 97, 105, 108, 101, 100>>
      [] s = "detached"       -> <<100, 101, 116, 97, 99, 104, 101, 100>>
      [] s = "stale"          -> <<115, 116, 97, 108, 101>>
      [] s = "expect"         -> <<101, 120, 112, 101, 99, 116>>
      [] s = "assert"         -> <<97, 115, 115, 101, 114, 116>>
      [] s = "tobe"           -> <<116, 111, 98, 101>>
      [] s = "toequal"        -> <<116, 111, 101, 113, 117, 97, 108>>
      [] s = "d"              -> <<100>>
      [] s = " "              -> <<32>>
      [] s = "..."            -> <<46, 46, 46>>
      [] s = "unexpected"     -> <<117, 110, 101, 120, 112, 101, 99, 116, 101, 100>>
      [] s = "TIMEOUT"        -> <<84, 73, 77, 69, 79, 85, 84>>
      [] s = "boom"           -> <<98, 111, 111, 109>>
      [] s = "jest"           -> <<106, 101, 115, 116>>
      [] s = "npx"            -> <<110, 112, 120>>
      [] s = "cypress"        -> <<99, 121, 112, 114, 101, 115, 115>>
      [] s = "run"            -> <<114, 117, 110>>
      [] s = "--ci"           -> <<45, 45, 99, 105>>
      [] s = "--runInBand"    -> <<45, 45, 114, 117, 110, 73, 110, 66, 97, 110, 100>>
      [] s = "--maxWorkers"   -> <<45, 45, 109, 97, 120, 87, 111, 114, 107, 101, 114, 115>>
      [] s = "--maxWorkers=2" -> <<45, 45, 109, 97, 120, 87, 111, 114, 107, 101, 114, 115, 61, 50>>
      [] s = "-w"             -> <<45, 119>>
      [] s = "-w4"            -> <<45, 119, 52>>
      [] s = "--workerThreads" -> <<45, 45, 119, 111, 114, 107, 101, 114, 84, 104, 114, 101, 97, 100, 115>>
      [] s = "-i"             -> <<45, 105>>
      [] s = "a.xml"          -> <<97, 46, 120, 109, 108>>
      [] s = "b.xml"          -> <<98, 46, 120, 109, 108>>
      [] s = "B.xml"          -> <<66, 46, 120, 109, 108>>
      [] s = "jest.json"      -> <<106, 101, 115, 116, 46, 106, 115, 111, 110>>
      [] s = "networ[U+212A]" -> <<110, 101, 116, 119, 111, 114, 226, 132, 170>>
      [] s = "[U+017F]elector" -> <<197, 191, 101, 108, 101, 99, 116, 111, 114>>
      [] s = "assert[U+00A0]failed" ->
             <<97, 115, 115, 101, 114, 116, 194, 160, 102, 97, 105, 108, 101, 100>>
      [] OTHER -> << >>

FromBytes(b) == CHOOSE s \in Strings : Bytes(s) = b

Min(a, b) == IF a <= b THEN a ELSE b

\* Go's < on strings: the first differing byte decides, a proper prefix is less.
RECURSIVE LexLess(_, _, _)
LexLess(x, y, i) ==
    IF i > Min(Len(x), Len(y)) THEN Len(x) < Len(y)
    ELSE IF x[i] # y[i] THEN x[i] < y[i]
    ELSE LexLess(x, y, i + 1)

StringLess(s, t) == LexLess(Bytes(s), Bytes(t), 1)

(***************************************************************************)
(* float64.  A positive double is [l2, l1, l0, e]: the 53-bit significand  *)
(* l2 * 2^36 + l1 * 2^18 + l0 with 2^16 <= l2 < 2^17, times 2^e.  Zero is  *)
(* F64Zero.  Every operation rounds its exact result to nearest, ties to   *)
(* even, as the hardware does.                                             *)
(***************************************************************************)
Limb == 2 ^ 18
TopLo == 2 ^ 16
TopHi == 2 ^ 17

F64Zero == [l2 |-> 0, l1 |-> 0, l0 |-> 0, e |-> 0]

\* The significand plus one unit in the last place.
F64Succ(x) ==
    IF x.l0 + 1 < Limb THEN [x EXCEPT !.l0 = x.l0 + 1]
    ELSE IF x.l1 + 1 < Limb THEN [x EXCEPT !.l1 = x.l1 + 1, !.l0 = 0]
    ELSE IF x.l2 + 1 < TopHi THEN [x EXCEPT !.l2 = x.l2 + 1, !.l1 = 0, !.l0 = 0]
    ELSE [l2 |-> TopLo, l1 |-> 0, l0 |-> 0, e |-> x.e + 1]

\* x is the exact result cut to 53 bits; rem / unit is the part cut off.
F64Round(x, rem, unit) ==
    IF 2 * rem > unit \/ (2 * rem = unit /\ x.l0 % 2 = 1) THEN F64Succ(x) ELSE x

\* The number of bits of the integer v >= 0.
RECURSIVE BitsOf(_)
BitsOf(v) ==
    IF v >= 64 THEN 6 + BitsOf(v \div 64)
    ELSE IF v >= 8 THEN 3 + BitsOf(v \div 8)
    ELSE IF v >= 4 THEN 3 ELSE IF v >= 2 THEN 2 ELSE v

\* The least sh >= from with n * 2^sh \div d >= 2^16.
RECURSIVE DivShift(_, _, _)
DivShift(n, d, sh) ==
    IF (n * (2 ^ sh)) \div d >= TopLo THEN sh ELSE DivShift(n, d, sh + 1)

\* float64(n) / float64(d) for integers n >= 0, d > 0.
F64Div(n, d) ==
    IF n = 0 THEN F64Zero
    ELSE
        LET least == 16 + BitsOf(d) - BitsOf(n)
            sh    == DivShift(n, d, IF least > 0 THEN least ELSE 0)
            d2 == n * (2 ^ sh)
            r2 == d2 % d
            r1 == (r2 * Limb) % d
            r0 == (r1 * Limb) % d
        IN  F64Round([l2 |-> d2 \div d, l1 |-> (r2 * Limb) \div d,
                      l0 |-> (r1 * Limb) \div d, e |-> 0 - (sh + 36)], r0, d)

\* A natural number of any size is the sequence of its limbs, the least
\* first and the last not zero.
RECURSIVE Limbs(_)
Limbs(n) == IF n = 0 THEN << >> ELSE <<n % Limb>> \o Limbs(n \div Limb)

\* a * d + carry for a number a, a limb d and a carry of two limbs at most;
\* each limb of a is multiplied in two halves of nine bits.
RECURSIVE ScaleLimbs(_, _, _)
ScaleLimbs(a, d, carry) ==
    IF a = << >> THEN Limbs(carry)
    ELSE LET hi == (a[1] \div (2 ^ 9)) * d
             t  == (a[1] % (2 ^ 9)) * d + (hi % (2 ^ 9)) * (2 ^ 9) + carry
         IN  <<t % Limb>> \o ScaleLimbs(Tail(a), d, t \div Limb + hi \div (2 ^ 9))

\* a + b + carry.
RECURSIVE AddLimbs(_, _, _)
AddLimbs(a, b, carry) ==
    IF a = << >> /\ b = << >> THEN Limbs(carry)
    ELSE LET t == (IF a = << >> THEN 0 ELSE a[1]) + (IF b = << >> THEN 0 ELSE b[1]) + carry
         IN  <<t % Limb>> \o AddLimbs(IF a = << >> THEN a ELSE Tail(a),
                                      IF b = << >> THEN b ELSE Tail(b), t \div Limb)

\* a * k for an integer k >= 0, a limb of k at a time.
RECURSIVE MulLimbs(_, _)
MulLimbs(a, k) ==
    IF k < Limb THEN ScaleLimbs(a, k, 0)
    ELSE AddLimbs(ScaleLimbs(a, k % Limb, 0), <<0>> \o MulLimbs(a, k \div Limb), 0)

\* The number that the eighteen bits lo .. lo + 17 of a form, bit 0 the
\* least; the bits below bit 0 and beyond the limbs of a are zero.
Field(a, lo) ==
    LET q     == lo \div 18
        r     == lo % 18
        at(i) == IF i >= 1 /\ i <= Len(a) THEN a[i] ELSE 0
    IN  (at(q + 1) \div (2 ^ r)) + (at(q + 2) % (2 ^ r)) * (2 ^ (18 - r))

\* The double nearest to a * 2^e: the 53 leading bits of a, rounded by the
\* bit that follows and by whether any bit after that one is set.
F64OfLimbs(a, e) ==
    LET s      == 18 * (Len(a) - 1) + BitsOf(a[Len(a)]) - 53
        q      == (s - 1) \div 18
        sticky == IF s >= 2 /\ (\/ \E i \in 1..q : a[i] # 0
                                \/ a[q + 1] % (2 ^ ((s - 1) % 18)) # 0)
                  THEN 1 ELSE 0
    IN  IF a = << >> THEN F64Zero
        ELSE F64Round([l2 |-> Field(a, s + 36), l1 |-> Field(a, s + 18),
                       l0 |-> Field(a, s), e |-> e + s],
                      2 * (Field(a, s - 1) % 2) + sticky, 4)

\* x * float64(k) for an integer k >= 0: the product of the significand of x
\* and of float64(k), rounded once.  float64(k) is k itself while k has 36
\* bits or fewer, and the double nearest to k beyond.
F64MulInt(x, k) ==
    IF k = 0 \/ x = F64Zero THEN F64Zero
    ELSE IF k \div Limb < Limb
    THEN F64OfLimbs(MulLimbs(<<x.l0, x.l1, x.l2>>, k), x.e)
    ELSE LET y == F64OfLimbs(Limbs(k), 0)
         IN  F64OfLimbs(MulLimbs(<<x.l0, x.l1, x.l2>>,
                                 y.l2 * (2 ^ 36) + y.l1 * Limb + y.l0), x.e + y.e)

\* The conversion time.Duration(x) of a double below 2^63: truncation toward
\* zero.
F64Trunc(x) ==
    LET j == 0 - x.e
    IN  IF x = F64Zero \/ j >= 53 THEN 0
        ELSE IF j >= 36 THEN x.l2 \div (2 ^ (j - 36))
        ELSE IF j >= 18 THEN x.l2 * (2 ^ (36 - j)) + (x.l1 \div (2 ^ (j - 18)))
        ELSE IF j >= 0
             THEN x.l2 * (2 ^ (36 - j)) + x.l1 * (2 ^ (18 - j)) + (x.l0 \div (2 ^ j))
        ELSE (x.l2 * (2 ^ 36) + x.l1 * Limb + x.l0) * (2 ^ x.e)

(***************************************************************************)
(* The signature detector.  A pattern is a sequence of items: a character  *)
(* matched without regard to case, an optional character, a run of white   *)
(* space of any length, or a word boundary.  Texts are UTF-8.               *)
(***************************************************************************)
Lit(s) == [i \in 1..Len(Bytes(s)) |-> [k |-> "byte", c |-> Bytes(s)[i]]]
Opt(s) == <<[k |-> "opt", c |-> Bytes(s)[1]]>>
Ws == <<[k |-> "ws", c |-> 0]>>
WordB == <<[k |-> "b", c |-> 0]>>

\* (?i): what the literal c of a pattern matches in a text.  A letter matches
\* every character of its orbit under unicode.SimpleFold: its two cases, and
\* for k the KELVIN SIGN U+212A, for s the LATIN SMALL LETTER LONG S U+017F.
Folds(c) ==
    LET lower == IF c >= 65 /\ c <= 90 THEN c + 32 ELSE c
    IN  IF lower >= 97 /\ lower <= 122
        THEN {<<lower>>, <<lower - 32>>}
                 \cup (IF lower = 107 THEN {<<226, 132, 170>>} ELSE {})
                 \cup (IF lower = 115 THEN {<<197, 191>>} ELSE {})
        ELSE {<<c>>}

\* Does text hold the bytes form from position j on?
HasAt(text, j, form) ==
    /\ j + Len(form) - 1 <= Len(text)
    /\ SubSeq(text, j, j + Len(form) - 1) = form

\* \s: tab, line feed, form feed, carriage return, space.
IsSpace(c) == c \in {9, 10, 12, 13, 32}
\* \w: letters, digits and the underscore.
IsWord(c) == (c >= 48 /\ c <= 57) \/ (c >= 65 /\ c <= 90) \/ (c >= 97 /\ c <= 122) \/ c = 95

\* Is position j of text (before text[j]) a word boundary?
AtBoundary(text, j) ==
    (j > 1 /\ IsWord(text[j - 1])) # (j <= Len(text) /\ IsWord(text[j]))

\* Do the items i.. of pat match text from position j on?
RECURSIVE MatchAt(_, _, _, _)
MatchAt(pat, i, text, j) ==
    IF i > Len(pat) THEN TRUE
    ELSE CASE pat[i].k = "byte" ->
                 \E form \in Folds(pat[i].c) :
                    /\ HasAt(text, j, form)
                    /\ MatchAt(pat, i + 1, text, j + Len(form))
           [] pat[i].k = "opt" ->
                 \/ \E form \in Folds(pat[i].c) :
                       /\ HasAt(text, j, form)
                       /\ MatchAt(pat, i + 1, text, j + Len(form))
                 \/ MatchAt(pat, i + 1, text, j)
           [] pat[i].k = "ws" ->
                 \/ MatchAt(pat, i + 1, text, j)
                 \/ /\ j <= Len(text)
                    /\ IsSpace(text[j])
                    /\ MatchAt(pat, i, text, j + 1)
           [] OTHER -> AtBoundary(text, j) /\ MatchAt(pat, i + 1, text, j)

\* pattern.MatchString: the pattern matches somewhere in the text.
MatchString(pat, text) == \E j \in 1..(Len(text) + 1) : MatchAt(pat, 1, text, j)

\* The categories in their fixed order, each with its patterns.
signaturePatterns ==
    << [signature |-> SignatureTimeout,
        patterns  |-> << Lit("timeout"),
                         Lit("time") \o Opt("d") \o Ws \o Lit("out"),
                         Lit("exceeded") \o Ws \o Lit("time") >>],
       [signature |-> SignatureSelector,
        patterns  |-> << Lit("selector"),
                         Lit("element") \o Ws \o Lit("not") \o Ws \o Lit("found"),
                         Lit("cy.get") >>],
       [signature |-> SignatureNetwork,
        patterns  |-> << Lit("network"),
                         Lit("econnrefused"),
                         Lit("fetch") \o Ws \o Lit("failed") >>],
       [signature |-> SignatureDOMDetach,
        patterns  |-> << Lit("detached"),
                         Lit("stale") \o Ws \o Lit("element") >>],
       [signature |-> SignatureAssertion,
        patterns  |-> << WordB \o Lit("expect") \o WordB,
                         WordB \o Lit("assert"),
                         WordB \o Lit("tobe") \o WordB,
                         WordB \o Lit("toequal") \o WordB >>] >>

\* The loop run to its end, the last category with a matching pattern winning.
RECURSIVE lastSignature(_, _)
lastSignature(text, n) ==
    IF n > Len(signaturePatterns) THEN SignatureUnknown
    ELSE LET later == lastSignature(text, n + 1)
         IN  IF later # SignatureUnknown THEN later
             ELSE IF \E q \in 1..Len(signaturePatterns[n].patterns) :
                        MatchString(signaturePatterns[n].patterns[q], text)
                  THEN signaturePatterns[n].signature
                  ELSE SignatureUnknown

\* The loop of DetectSignature from category n on: the first category with a
\* matching pattern, Unknown when there is none.
RECURSIVE firstSignature(_, _)
firstSignature(text, n) ==
    IF n > Len(signaturePatterns) THEN SignatureUnknown
    ELSE IF \E q \in 1..Len(signaturePatterns[n].patterns) :
                MatchString(signaturePatterns[n].patterns[q], text)
         THEN signaturePatterns[n].signature
         ELSE firstSignature(text, n + 1)

detectBytes(text) == IF text = << >> THEN SignatureUnknown ELSE firstSignature(text, 1)

\* The detector on every string of the model, computed once.
signatureOf == [m \in Strings |-> detectBytes(Bytes(m))]

DetectSignature(failureMessage) == signatureOf[failureMessage]

(***************************************************************************)
(* truncateExcerpt.                                                        *)
(***************************************************************************)
maxExcerptLen == 200

\* The length of the white-space character at position j of text, 0 for none.
\* White space is unicode.IsSpace, in UTF-8: tab to carriage return and the
\* space, U+0085, U+00A0, U+1680, U+2000 to U+200A, U+2028, U+2029, U+202F,
\* U+205F, U+3000.
spaceAt(text, j) ==
    LET unicodeSpaces ==
            {<<c>> : c \in {9, 10, 11, 12, 13, 32}}
                \cup {<<194, 133>>, <<194, 160>>, <<225, 154, 128>>}
                \cup {<<226, 128, c>> : c \in (128..138) \cup {168, 169, 175}}
                \cup {<<226, 129, 159>>, <<227, 128, 128>>}
    IN  IF \E sp \in unicodeSpaces : HasAt(text, j, sp)
        THEN Len(CHOOSE sp \in unicodeSpaces : HasAt(text, j, sp))
        ELSE 0

\* strings.Fields: the maximal runs of characters that are not white space.
RECURSIVE Fields(_, _, _)
Fields(text, j, word) ==
    IF j > Len(text) THEN (IF word = << >> THEN << >> ELSE <<word>>)
    ELSE IF spaceAt(text, j) > 0
         THEN (IF word = << >> THEN << >> ELSE <<word>>)
                  \o Fields(text, j + spaceAt(text, j), << >>)
         ELSE Fields(text, j + 1, Append(word, text[j]))

\* strings.Join(words, " ").
RECURSIVE Join(_)
Join(words) ==
    IF words = << >> THEN << >>
    ELSE IF Len(words) = 1 THEN words[1]
    ELSE words[1] \o Bytes(" ") \o Join(Tail(words))

excerptBytes(text) ==
    LET t == Join(Fields(text, 1, << >>))
    IN  IF Len(t) <= maxExcerptLen THEN t
        ELSE SubSeq(t, 1, maxExcerptLen - 3) \o Bytes("...")

\* The excerpt of every string of the model, computed once.
excerptOf == [m \in Strings |-> FromBytes(excerptBytes(Bytes(m)))]

truncateExcerpt(s) == excerptOf[s]

(***************************************************************************)
(* Aggregate: one testAggregator per test identity, filled run by run.     *)
(***************************************************************************)
newAggregator(testID) ==
    [testID |-> testID, passCount |-> 0, failCount |-> 0, skipCount |-> 0,
     totalDuration |-> 0, durationCount |-> 0, failureEvidence |-> << >>]

\* addOutcome with the skip branch accumulating the duration as well.
addOutcomeTimingSkips(agg, test, runIndex) ==
    CASE test.Outcome = OutcomePass ->
            [agg EXCEPT !.passCount = @ + 1,
                        !.totalDuration = @ + test.Duration,
                        !.durationCount = @ + 1]
      [] test.Outcome = OutcomeFail ->
            [agg EXCEPT !.failCount = @ + 1,
                        !.totalDuration = @ + test.Duration,
                        !.durationCount = @ + 1,
                        !.failureEvidence = Append(@,
                            [RunIndex  |-> runIndex,
                             Excerpt   |-> truncateExcerpt(test.FailureMessage),
                             Signature |-> DetectSignature(test.FailureMessage)])]
      [] test.Outcome = OutcomeSkip ->
            [agg EXCEPT !.skipCount = @ + 1,
                        !.totalDuration = @ + test.Duration,
                        !.durationCount = @ + 1]
      [] OTHER -> agg

\* The switch on test.Outcome, for one test of the run with index runIndex.
addOutcome(agg, test, runIndex) ==
    CASE test.Outcome = OutcomePass ->
            [agg EXCEPT !.passCount = @ + 1,
                        !.totalDuration = @ + test.Duration,
                        !.durationCount = @ + 1]
      [] test.Outcome = OutcomeFail ->
            [agg EXCEPT !.failCount = @ + 1,
                        !.totalDuration = @ + test.Duration,
                        !.durationCount = @ + 1,
                        !.failureEvidence = Append(@,
                            [RunIndex  |-> runIndex,
                             Excerpt   |-> truncateExcerpt(test.FailureMessage),
                             Signature |-> DetectSignature(test.FailureMessage)])]
      [] test.Outcome = OutcomeSkip ->
            [agg EXCEPT !.skipCount = @ + 1]
      [] OTHER -> agg

\* aggregators[test.TestID], created on first sight, then updated.
addTest(aggregators, test, runIndex) ==
    LET agg == IF test.TestID \in DOMAIN aggregators
               THEN aggregators[test.TestID]
               ELSE newAggregator(test.TestID)
    IN  [id \in (DOMAIN aggregators) \cup {test.TestID} |->
            IF id = test.TestID THEN addOutcome(agg, test, runIndex)
            ELSE aggregators[id]]

\* The inner loop: the tests of one run, in order.
RECURSIVE addRun(_, _, _, _)
addRun(aggregators, run, k, n) ==
    IF k > n THEN aggregators
    ELSE addRun(addTest(aggregators, run.Tests[k], run.RunIndex), run, k + 1, n)

\* The outer loop stopping one run short of the end of the list.
RECURSIVE addRunsSkipLast(_, _, _)
addRunsSkipLast(aggregators, runs, i) ==
    IF i >= Len(runs) THEN aggregators
    ELSE addRunsSkipLast(addRun(aggregators, runs[i], 1, Len(runs[i].Tests)), runs, i + 1)

\* The outer loop: the runs, in list order.
RECURSIVE addRuns(_, _, _)
addRuns(aggregators, runs, i) ==
    IF i > Len(runs) THEN aggregators
    ELSE addRuns(addRun(aggregators, runs[i], 1, Len(runs[i].Tests)), runs, i + 1)

EmptyMap == [id \in {} |-> 0]

(***************************************************************************)
(* classify, the metrics and buildAggregatedTest.                          *)
(***************************************************************************)
\* classify without its first check, that of totalRuns against zero.
classifyNoZeroGuard(passCount, failCount, totalRuns) ==
    IF passCount >= 1 /\ failCount >= 1 THEN ClassificationFlaky
    ELSE IF failCount = totalRuns THEN ClassificationDeterministicFail
    ELSE ClassificationStable

classify(passCount, failCount, totalRuns) ==
    IF totalRuns = 0 THEN ClassificationStable
    ELSE IF passCount >= 1 /\ failCount >= 1 THEN ClassificationFlaky
    ELSE IF failCount = totalRuns THEN ClassificationDeterministicFail
    ELSE ClassificationStable

RECURSIVE GCD(_, _)
GCD(a, b) == IF b = 0 THEN a ELSE GCD(b, a % b)

\* float64(failCount) / float64(totalRuns), zero when totalRuns is zero: the
\* double is the correctly rounded value of the fraction, so two rates are the
\* same double exactly when their reduced fractions are the same.
flakeRateOf(failCount, totalRuns) ==
    IF totalRuns > 0
    THEN LET g == GCD(failCount, totalRuns)
         IN  [num |-> failCount \div g, den |-> totalRuns \div g]
    ELSE [num |-> 0, den |-> 1]

\* Go's / on integers, for d > 0: the quotient truncated toward zero.
Quo(n, d) == IF n >= 0 THEN n \div d ELSE 0 - ((0 - n) \div d)

\* agg.totalDuration / time.Duration(agg.durationCount), zero without samples.
avgDurationOf(totalDuration, durationCount) ==
    IF durationCount > 0 THEN Quo(totalDuration, durationCount) ELSE 0

\* time.Duration(flakeRate * float64(avgDuration) * float64(numRuns)): the
\* product rounded as a double at each step, then truncated toward zero; a
\* negative avgDuration gives the negative of what its absolute value gives.
wastedProduct(flakeRate, avgDuration, numRuns) ==
    LET magnitude == IF avgDuration < 0 THEN 0 - avgDuration ELSE avgDuration
        product   == F64Trunc(F64MulInt(F64MulInt(F64Div(flakeRate.num, flakeRate.den),
                                                  magnitude), numRuns))
    IN  IF avgDuration < 0 THEN 0 - product ELSE product

\* The product computed whatever the classification.
wastedTimeUnguarded(classification, totalRuns, flakeRate, avgDuration, numRuns) ==
    wastedProduct(flakeRate, avgDuration, numRuns)

\* time.Duration(flakeRate * float64(avgDuration) * float64(numRuns)) for a
\* flaky test, zero for any other.
wastedTimeOf(classification, totalRuns, flakeRate, avgDuration, numRuns) ==
    IF classification = ClassificationFlaky /\ totalRuns > 0
    THEN wastedProduct(flakeRate, avgDuration, numRuns)
    ELSE 0

evidenceLess(a, b) == a.RunIndex < b.RunIndex

\* The evidence left in the order in which it was collected.
unsortedEvidence(s) == {s}

\* The insertion sort of package sort: element by element, each moved left
\* while it is less than its left neighbour.  It keeps the evidence of one
\* run in the order in which it was collected.
RECURSIVE insertEvidence(_, _)
insertEvidence(s, x) ==
    IF s = << >> \/ ~evidenceLess(x, s[Len(s)]) THEN Append(s, x)
    ELSE Append(insertEvidence(SubSeq(s, 1, Len(s) - 1), x), s[Len(s)])

RECURSIVE insertionSortEvidence(_)
insertionSortEvidence(s) ==
    IF s = << >> THEN << >>
    ELSE insertEvidence(insertionSortEvidence(SubSeq(s, 1, Len(s) - 1)), s[Len(s)])

\* Every order in which a map with the keys S can be ranged over.
MapOrders(S) ==
    {o \in [1..Cardinality(S) -> S] : \A i, j \in 1..Cardinality(S) : i # j => o[i] # o[j]}

\* The arrangements of the sorted evidence s that are sorted as well: the
\* evidence of each run in any order.
RECURSIVE TieOrders(_)
TieOrders(s) ==
    IF s = << >> THEN {<< >>}
    ELSE LET n    == Cardinality({k \in 1..Len(s) : s[k].RunIndex = s[1].RunIndex})
             ties == SubSeq(s, 1, n)
         IN  {[k \in 1..n |-> ties[o[k]]] \o rest :
                  o \in MapOrders(1..n), rest \in TieOrders(SubSeq(s, n + 1, Len(s)))}

\* The length up to which sort.Slice sorts by insertion.
maxInsertion == 12

\* sort.Slice(sortedEvidence, less) with less comparing the RunIndex alone:
\* what it can leave in the slice.  The sort is not stable: up to
\* maxInsertion elements it is the insertion sort, and beyond that the order
\* in which it leaves the evidence of one run depends on how the slice was
\* arranged, so that every sorted arrangement is a possible outcome.
sortEvidence(s) ==
    IF Len(s) <= maxInsertion THEN {insertionSortEvidence(s)}
    ELSE TieOrders(insertionSortEvidence(s))

\* totalRuns with the skips counted in.
totalRunsWithSkips(agg) == agg.passCount + agg.failCount + agg.skipCount

\* totalRuns := agg.passCount + agg.failCount
totalRunsOf(agg) == agg.passCount + agg.failCount

\* buildAggregatedTest, with sortedEvidence what sort.Slice left in the copy
\* of agg.failureEvidence.
buildAggregatedTest(agg, numRuns, sortedEvidence) ==
    LET totalRuns      == totalRunsOf(agg)
        avgDuration    == avgDurationOf(agg.totalDuration, agg.durationCount)
        classification == classify(agg.passCount, agg.failCount, totalRuns)
        flakeRate      == flakeRateOf(agg.failCount, totalRuns)
    IN  [TestID          |-> agg.testID,
         PassCount       |-> agg.passCount,
         FailCount       |-> agg.failCount,
         SkipCount       |-> agg.skipCount,
         TotalRuns       |-> totalRuns,
         AvgDuration     |-> avgDuration,
         Classification  |-> classification,
         FlakeRate       |-> flakeRate,
         WastedTime      |-> wastedTimeOf(classification, totalRuns, flakeRate,
                                          avgDuration, numRuns),
         FailureEvidence |-> sortedEvidence]

(***************************************************************************)
(* sortAggregatedTests.                                                    *)
(***************************************************************************)
\* a.FlakeRate > b.FlakeRate on the doubles, by cross multiplication.
rateGreater(a, b) == a.num * b.den > b.num * a.den

\* The less function without its last key, the TestID.
testLessNoTieBreak(a, b) ==
    IF a.WastedTime # b.WastedTime THEN a.WastedTime > b.WastedTime
    ELSE IF a.FlakeRate # b.FlakeRate THEN rateGreater(a.FlakeRate, b.FlakeRate)
    ELSE a.FailCount > b.FailCount

\* The less function of sortAggregatedTests.
testLess(a, b) ==
    IF a.WastedTime # b.WastedTime THEN a.WastedTime > b.WastedTime
    ELSE IF a.FlakeRate # b.FlakeRate THEN rateGreater(a.FlakeRate, b.FlakeRate)
    ELSE IF a.FailCount # b.FailCount THEN a.FailCount > b.FailCount
    ELSE StringLess(a.TestID, b.TestID)

RECURSIVE insertTest(_, _)
insertTest(s, x) ==
    IF s = << >> \/ ~testLess(x, s[Len(s)]) THEN Append(s, x)
    ELSE Append(insertTest(SubSeq(s, 1, Len(s) - 1), x), s[Len(s)])

\* The tests left in the order in which the map was ranged over.
unsortedTests(tests) == tests

RECURSIVE sortAggregatedTests(_)
sortAggregatedTests(tests) ==
    IF tests = << >> THEN << >>
    ELSE insertTest(sortAggregatedTests(SubSeq(tests, 1, Len(tests) - 1)),
                    tests[Len(tests)])

\* The map Aggregate's two loops build.
aggregatorsOf(runs) == addRuns(EmptyMap, runs, 1)

\* for _, agg := range aggregators: the aggregates appended in the order in
\* which the map is ranged over.
RECURSIVE buildTests(_, _, _, _)
buildTests(aggregators, mapOrder, numRuns, sorted) ==
    IF mapOrder = << >> THEN << >>
    ELSE LET id == mapOrder[Len(mapOrder)]
         IN  Append(buildTests(aggregators, SubSeq(mapOrder, 1, Len(mapOrder) - 1),
                               numRuns, sorted),
                    buildAggregatedTest(aggregators[id], numRuns, sorted[id]))

\* Aggregate with numRuns counting only the runs recorded without an error.
AggregateOverParsedRuns(runs, mapOrder, sorted) ==
    IF Len(runs) = 0 THEN << >>
    ELSE LET aggregators == aggregatorsOf(runs)
             numRuns     == Cardinality({i \in 1..Len(runs) : runs[i].Error = ""})
         IN  sortAggregatedTests(buildTests(aggregators, mapOrder, numRuns, sorted))

\* Aggregate(runs), with sorted[id] what sort.Slice left of the evidence of
\* the test id, and the map's keys ranged over in the order mapOrder (Go
\* leaves the iteration order of a map open).
Aggregate(runs, mapOrder, sorted) ==
    IF Len(runs) = 0 THEN << >>
    ELSE LET aggregators == aggregatorsOf(runs)
             numRuns     == Len(runs)
         IN  sortAggregatedTests(buildTests(aggregators, mapOrder, numRuns, sorted))

\* What the calls of sort.Slice can leave, test by test, of the evidence the
\* aggregators of the identities ids hold.
RECURSIVE SortedEvidence(_, _)
SortedEvidence(aggregators, ids) ==
    IF ids = {} THEN {EmptyMap}
    ELSE LET id == CHOOSE x \in ids : TRUE
         IN  {(id :> e) @@ rest :
                  e \in sortEvidence(aggregators[id].failureEvidence),
                  rest \in SortedEvidence(aggregators, ids \ {id})}

\* The results Aggregate(runs) can return, one for each order of the map and
\* each outcome of the sorts.
Aggregates(runs) ==
    LET aggregators == aggregatorsOf(runs)
    IN  {Aggregate(runs, o, e) : o \in MapOrders(DOMAIN aggregators),
                                 e \in SortedEvidence(aggregators, DOMAIN aggregators)}

\* The identities that occur in runs.
IdentitiesOf(runs) ==
    UNION {{runs[i].Tests[k].TestID : k \in 1..Len(runs[i].Tests)} : i \in 1..Len(runs)}

(***************************************************************************)
(* The adapters' Parse, on the test cases an artifact reports in document  *)
(* order.                                                                  *)
(***************************************************************************)
RECURSIVE insertByTestID(_, _)
insertByTestID(s, x) ==
    IF s = << >> \/ ~StringLess(x.TestID, s[Len(s)].TestID) THEN Append(s, x)
    ELSE Append(insertByTestID(SubSeq(s, 1, Len(s) - 1), x), s[Len(s)])

\* sort.Slice by TestID: the insertion sort, which it is for the reports of
\* the model, of fewer than 12 test cases; in a longer report the tests of
\* one identity can come out in another order than that of the document.
RECURSIVE sortByTestID(_)
sortByTestID(s) ==
    IF s = << >> THEN << >>
    ELSE insertByTestID(sortByTestID(SubSeq(s, 1, Len(s) - 1)), s[Len(s)])

\* jest: one test per assertion result, sorted by TestID.
ParseJest(artifact) ==
    IF \E k \in 1..Len(artifact) : artifact[k].TestID = ""
    THEN [ok |-> FALSE, Tests |-> << >>]
    ELSE [ok |-> TRUE, Tests |-> sortByTestID(artifact)]

\* The value testMap[id] is left with: that of the last test case named id.
LastOf(artifact, id) ==
    artifact[CHOOSE k \in 1..Len(artifact) :
                /\ artifact[k].TestID = id
                /\ \A m \in (k + 1)..Len(artifact) : artifact[m].TestID # id]

\* The names as a range over them gave them.
unsortedStrings(names) == names

RECURSIVE insertString(_, _)
insertString(s, x) ==
    IF s = << >> \/ ~StringLess(x, s[Len(s)]) THEN Append(s, x)
    ELSE Append(insertString(SubSeq(s, 1, Len(s) - 1), x), s[Len(s)])

RECURSIVE sortedInsertions(_)
sortedInsertions(names) ==
    IF names = << >> THEN << >>
    ELSE insertString(sortedInsertions(SubSeq(names, 1, Len(names) - 1)), names[Len(names)])

\* sort.Strings.
sortStrings(names) == sortedInsertions(names)

\* The identities of the test cases.
TestIDsOf(cases) == {cases[k].TestID : k \in 1..Len(cases)}

\* The end of the Cypress Parse: testMap[testID] = result for every test case
\* in turn, the keys of the map as a range over it gives them (mapOrder),
\* sorted, and the value of each.
cypressTests(cases, mapOrder) ==
    LET testIDs == sortStrings(mapOrder)
    IN  [k \in 1..Len(testIDs) |-> LastOf(cases, testIDs[k])]

\* A JUnit file whose root is <testsuites> with one <testsuite> in it that
\* holds the test cases, and one whose root is the <testsuite> itself.
SuitesFile(cases) == [root |-> "testsuites", suites |-> 1, cases |-> cases]
SuiteFile(cases) == [root |-> "testsuite", suites |-> 1, cases |-> cases]

\* parseXMLFile: a root <testsuites> with a suite in it gives the cases of
\* its suites, none included; a root <testsuite> gives its cases when it has
\* some; anything else is an error.
parseXMLFile(file) ==
    IF file.root = "testsuites" /\ file.suites > 0
    THEN [ok |-> TRUE, cases |-> file.cases]
    ELSE IF file.root = "testsuite" /\ Len(file.cases) > 0
    THEN [ok |-> TRUE, cases |-> file.cases]
    ELSE [ok |-> FALSE, cases |-> << >>]

\* cypress, on a run directory with one file, a <testsuites> document with
\* the test cases artifact.
ParseCypress(artifact) ==
    LET read == parseXMLFile(SuitesFile(artifact))
    IN  IF ~read.ok \/ "" \in TestIDsOf(read.cases)
        THEN [ok |-> FALSE, Tests |-> << >>]
        ELSE [ok |-> TRUE,
              Tests |-> cypressTests(read.cases,
                            CHOOSE o \in MapOrders(TestIDsOf(read.cases)) : TRUE)]

Parse(t, artifact) == IF t = "jest" THEN ParseJest(artifact) ELSE ParseCypress(artifact)

(***************************************************************************)
(* The sessions of the model.  The command runs a suite of two test cases; *)
(* each run reports one outcome for each of them (the first passes, fails  *)
(* or is skipped, the second passes or fails), and a test case takes the   *)
(* time, and fails with the text, that CaseOf gives it.                    *)
(***************************************************************************)
Tools == {"jest", "cypress"}

\* Two test cases of different names, or two of the same name.
Suites == {<<"a::t", "Z::t">>, <<"a::t", "a::t">>}

\* The outcomes of the k-th test case of the suite.
OutcomesOf(k) ==
    IF k = 1 THEN {OutcomePass, OutcomeFail, OutcomeSkip} ELSE {OutcomePass, OutcomeFail}

\* The outcomes of one run of the suite s, case by case.
RunOutcomes(s) == {o \in [1..Len(s) -> {OutcomePass, OutcomeFail, OutcomeSkip}] : \A k \in 1..Len(s) : o[k] \in OutcomesOf(k)}

CaseOf(id, outcome) ==
    [TestID         |-> id,
     Outcome        |-> outcome,
     Duration       |-> CASE outcome = OutcomePass -> (IF id = "a::t" THEN 6 ELSE 100000000)
                          [] outcome = OutcomeFail -> (IF id = "a::t" THEN 9 ELSE 100000007)
                          [] OTHER                 -> (IF id = "a::t" THEN 4 ELSE 0),
     FailureMessage |-> IF outcome # OutcomeFail THEN ""
                        ELSE IF id = "a::t" THEN "timed  out" ELSE "assert[U+00A0]failed"]

\* What the artifact of a run reports when the cases of s end as outcomes say.
ArtifactOf(s, outcomes) == [k \in 1..Len(s) |-> CaseOf(s[k], outcomes[k])]

VARIABLES
    tool,             \* the adapter of the session
    suite,            \* the test cases the command runs
    runResults,       \* the run records handed to Aggregate
    aggregatedTests,  \* what Aggregate returned
    pc,               \* "collect" until Aggregate has been called, then "done"
    message,          \* the failure message given to DetectSignature, word by word
    signature,        \* what DetectSignature returned
    cfg,              \* runner.Config, with the flags of the command line
    fs,               \* the output directory: latest/ and latest/runs/
    loopIndex,        \* i of Run's loop
    clock,            \* time.Since(startTime), in ticks
    ctxDone,          \* ctx.Err() != nil: cancel() has been called
    children,         \* the child processes started so far
    child,            \* the child of the current run: how it ended, what it left
    runErr,           \* the error Run returned, "" for nil
    warnings,         \* what was written to stderr as a warning
    report,           \* the report buildReport returned
    exitCode,         \* the status the command exits with
    baseCmd,          \* the slice of the base command a caller gives BuildCommand
    cmdArgs,          \* what BuildCommand returned
    artifacts,        \* the files the child left in the run directory
    parseResult,      \* what Parse returned: the tests, or ok = FALSE for an error
    listed,           \* the slice of aggregates a caller gives FilterByClassification or TopFlakes
    picked            \* the call made with it and what it returned

\* The variables of the signature detector and of a session of the command.
detectorVars == <<message, signature>>
sessionVars == <<cfg, fs, loopIndex, clock, ctxDone, children, child, runErr,
                 warnings, report, exitCode>>

adapterVars == <<baseCmd, cmdArgs, artifacts, parseResult>>

listVars == <<listed, picked>>

vars == <<tool, suite, runResults, aggregatedTests, pc, detectorVars, sessionVars,
          adapterVars, listVars>>

\* No message has been given to the detector.
DetectorIdle == message = << >> /\ signature = ""

NoSlice == [arr |-> << >>, len |-> 0]
NotParsed == [ok |-> FALSE, Tests |-> << >>]

NoCall == [fn |-> "", class |-> "", n |-> 0, result |-> << >>]

\* No list has been given to FilterByClassification or TopFlakes on its own.
ListIdle == listed = NoSlice /\ picked = NoCall

\* No adapter has been called on its own.
AdapterIdle ==
    /\ baseCmd = NoSlice
    /\ cmdArgs = << >>
    /\ artifacts = << >>
    /\ parseResult = NotParsed

NoConfig == [Runs |-> 0, Timeout |-> 0, KeepRuns |-> 0, Command |-> << >>,
             Adapter |-> "", FailOnFlake |-> FALSE]
\* The output directory: whether latest/ is there, the run directories under
\* latest/runs that an earlier session left and those this session made, and
\* the directories of the earlier session that have been removed.
NoFiles == [latest |-> FALSE, earlier |-> {}, runs |-> {}, removed |-> {}]
NoReport == [built |-> FALSE]
NoChild == [state |-> "none"]

\* No session of the command is under way.
SessionIdle ==
    /\ cfg = NoConfig
    /\ fs = NoFiles
    /\ loopIndex = 0
    /\ clock = 0
    /\ ctxDone = FALSE
    /\ children = 0
    /\ child = NoChild
    /\ runErr = ""
    /\ warnings = {}
    /\ report = NoReport
    /\ exitCode = -1

Init ==
    /\ tool \in Tools
    /\ suite \in Suites
    /\ runResults = << >>
    /\ aggregatedTests = << >>
    /\ pc = "collect"
    /\ ListIdle
    /\ DetectorIdle
    /\ SessionIdle
    /\ AdapterIdle

\* Result.RunsExecuted: the number of records, those with an error included.
RunsExecuted == Len(runResults)

UsedIndices == {runResults[i].RunIndex : i \in 1..Len(runResults)}

\* A run whose artifact parses: the record carries the tests and the run's
\* index.  Aggregate is exported and takes its list as it comes, so the records
\* are listed in any order of their indices, the order of execution being one.
RecordRun ==
    /\ pc = "collect"
    /\ Len(runResults) < MaxRuns
    /\ \E i \in (1..MaxRuns) \ UsedIndices, outcomes \in RunOutcomes(suite) :
          LET parsed == Parse(tool, ArtifactOf(suite, outcomes))
          IN  /\ parsed.ok
              /\ runResults' = Append(runResults,
                    [RunIndex |-> i, Tests |-> parsed.Tests, Error |-> ""])
    /\ UNCHANGED <<listVars, tool, suite, aggregatedTests, pc, detectorVars, adapterVars, sessionVars>>

\* A run that could not be executed or parsed: the record carries the error
\* and no tests.
RecordError ==
    /\ pc = "collect"
    /\ Len(runResults) < MaxRuns
    /\ \E i \in (1..MaxRuns) \ UsedIndices :
          runResults' = Append(runResults,
                [RunIndex |-> i, Tests |-> << >>, Error |-> "failed to parse run results"])
    /\ UNCHANGED <<listVars, tool, suite, aggregatedTests, pc, detectorVars, adapterVars, sessionVars>>

\* classify.Aggregate(runResults).
DoAggregate ==
    /\ pc = "collect"
    /\ aggregatedTests' \in Aggregates(runResults)
    /\ pc' = "done"
    /\ UNCHANGED <<listVars, tool, suite, runResults, detectorVars, adapterVars, sessionVars>>

Next == RecordRun \/ RecordError \/ DoAggregate

Spec == Init /\ [][Next]_vars

(***************************************************************************)
(* What the run records say, counted from runResults alone.                *)
(***************************************************************************)
\* The places <<i, k>> of the list where a test named id has an outcome of outs.
OccurrencesOf(id, outs) ==
    {p \in (1..Len(runResults)) \X (1..2) :
        /\ p[2] <= Len(runResults[p[1]].Tests)
        /\ runResults[p[1]].Tests[p[2]].TestID = id
        /\ runResults[p[1]].Tests[p[2]].Outcome \in outs}

\* The runs of the list in which a test named id appears.
RunsNaming(id) ==
    {i \in 1..Len(runResults) :
        \E k \in 1..Len(runResults[i].Tests) : runResults[i].Tests[k].TestID = id}

RECURSIVE DurationOver(_)
DurationOver(places) ==
    IF places = {} THEN 0
    ELSE LET p == CHOOSE q \in places : TRUE
         IN  runResults[p[1]].Tests[p[2]].Duration + DurationOver(places \ {p})

\* The run records in the order of their RunIndex.
ByRunIndex(runs) ==
    [k \in 1..Len(runs) |->
        runs[CHOOSE i \in 1..Len(runs) :
                Cardinality({j \in 1..Len(runs) : runs[j].RunIndex < runs[i].RunIndex}) = k - 1]]

Aggregated == {aggregatedTests[k] : k \in 1..Len(aggregatedTests)}

Ran == {OutcomePass, OutcomeFail}

(***************************************************************************)
(* C1: every aggregate carries one classification of the three: Flaky      *)
(* exactly when the test passed at least once and failed at least once,    *)
(* DeterministicFail exactly when it failed in all of its pass and fail    *)
(* runs and there is at least one, Stable in every other case, the         *)
(* all-skipped one included.                                               *)
(***************************************************************************)
ClassificationRule ==
    pc = "done" =>
        \A t \in Aggregated :
            LET passCount == Cardinality(OccurrencesOf(t.TestID, {OutcomePass}))
                failCount == Cardinality(OccurrencesOf(t.TestID, {OutcomeFail}))
                totalRuns == passCount + failCount
                flaky     == passCount >= 1 /\ failCount >= 1
                detFail   == failCount = totalRuns /\ totalRuns > 0
            IN  /\ t.Classification \in {ClassificationFlaky, ClassificationStable,
                                         ClassificationDeterministicFail}
                /\ (t.Classification = ClassificationFlaky) <=> flaky
                /\ (t.Classification = ClassificationDeterministicFail) <=> detFail
                /\ (t.Classification = ClassificationStable) <=> (~flaky /\ ~detFail)

\* A flaky test beside a test skipped in every run, which is Stable.
ClassificationWitness ==
    /\ pc = "done"
    /\ \E t \in Aggregated : t.Classification = ClassificationFlaky
    /\ \E t \in Aggregated :
          /\ t.TotalRuns = 0
          /\ t.SkipCount >= 2
          /\ t.Classification = ClassificationStable

(***************************************************************************)
(* C2: the pass, fail and skip counts of an aggregate add up to the number *)
(* of runs in which its identity appeared.                                 *)
(***************************************************************************)
CountsAddUpToRuns ==
    pc = "done" =>
        \A t \in Aggregated :
            t.PassCount + t.FailCount + t.SkipCount = Cardinality(RunsNaming(t.TestID))

(***************************************************************************)
(* C3: the result holds one aggregate for each identity that occurs in a   *)
(* run of the list, none missing and none twice, and is empty for the      *)
(* empty list.                                                             *)
(***************************************************************************)
OneAggregatePerIdentity ==
    pc = "done" =>
        /\ {t.TestID : t \in Aggregated} = IdentitiesOf(runResults)
        /\ \A j, k \in 1..Len(aggregatedTests) :
              aggregatedTests[j].TestID = aggregatedTests[k].TestID => j = k
        /\ (runResults = << >> => aggregatedTests = << >>)

\* Two identities, each named by several runs, in a list that ends with the
\* record of a run that gave tests.
OneAggregatePerIdentityWitness ==
    /\ pc = "done"
    /\ Len(aggregatedTests) = 2
    /\ Len(runResults) >= 2
    /\ runResults[Len(runResults)].Tests # << >>
    /\ \A t \in Aggregated : Cardinality(RunsNaming(t.TestID)) >= 2

(***************************************************************************)
(* C4: an aggregate that is not Flaky has a WastedTime of zero.            *)
(***************************************************************************)
NoWasteUnlessFlaky ==
    pc = "done" =>
        \A t \in Aggregated :
            t.Classification # ClassificationFlaky => t.WastedTime = 0

\* A test that fails in every run, with time spent on it, beside a flaky one.
NoWasteUnlessFlakyWitness ==
    /\ pc = "done"
    /\ \E t \in Aggregated :
          /\ t.Classification = ClassificationDeterministicFail
          /\ t.AvgDuration > 0
          /\ t.WastedTime = 0
    /\ \E t \in Aggregated : t.WastedTime > 0

(***************************************************************************)
(* C5: the WastedTime of a Flaky aggregate is its flakeRate times its      *)
(* AvgDuration times the number of runs executed, the runs recorded with   *)
(* an error counted: the product as float64 arithmetic gives it, cut to    *)
(* whole nanoseconds, which is the whole part of the exact product or one  *)
(* nanosecond less.                                                        *)
(***************************************************************************)
WastedTimeOverRunsExecuted ==
    pc = "done" =>
        \A t \in Aggregated :
            t.Classification = ClassificationFlaky =>
                LET exact == t.FailCount * t.AvgDuration * RunsExecuted
                IN  /\ t.WastedTime =
                          F64Trunc(F64MulInt(F64MulInt(
                              F64Div(t.FlakeRate.num, t.FlakeRate.den),
                              t.AvgDuration), RunsExecuted))
                    /\ t.WastedTime * t.TotalRuns <= exact
                    /\ exact < (t.WastedTime + 2) * t.TotalRuns

\* A flaky test in a session one run of which was recorded with an error.
WastedTimeOverRunsExecutedWitness ==
    /\ pc = "done"
    /\ \E i \in 1..Len(runResults) : runResults[i].Error # ""
    /\ \E t \in Aggregated :
          /\ t.Classification = ClassificationFlaky
          /\ t.TotalRuns < RunsExecuted
          /\ t.WastedTime > 0

(***************************************************************************)
(* C6: of two neighbours in the result the first has the greater           *)
(* WastedTime, or the same and the greater FlakeRate, or the same and the  *)
(* greater FailCount, or the same and the lesser TestID.                   *)
(***************************************************************************)
ResultIsRanked ==
    pc = "done" =>
        \A k \in 1..(Len(aggregatedTests) - 1) :
            LET a == aggregatedTests[k]
                b == aggregatedTests[k + 1]
                rateA == a.FlakeRate.num * b.FlakeRate.den
                rateB == b.FlakeRate.num * a.FlakeRate.den
            IN  \/ a.WastedTime > b.WastedTime
                \/ a.WastedTime = b.WastedTime /\ rateA > rateB
                \/ a.WastedTime = b.WastedTime /\ rateA = rateB
                     /\ a.FailCount > b.FailCount
                \/ a.WastedTime = b.WastedTime /\ rateA = rateB
                     /\ a.FailCount = b.FailCount
                     /\ StringLess(a.TestID, b.TestID)

\* Two tests that differ in nothing but the TestID, after several runs.
ResultIsRankedWitness ==
    /\ pc = "done"
    /\ Len(runResults) >= 2
    /\ Len(aggregatedTests) = 2
    /\ aggregatedTests[1].TestID = "Z::t"
    /\ aggregatedTests[2].TestID = "a::t"
    /\ aggregatedTests[1].WastedTime = aggregatedTests[2].WastedTime
    /\ aggregatedTests[1].FlakeRate = aggregatedTests[2].FlakeRate
    /\ aggregatedTests[1].FailCount = aggregatedTests[2].FailCount

(***************************************************************************)
(* Sessions of Jest in which every run reports the test a::t twice, failed *)
(* with another message each time (two tests of one name, or a test that   *)
(* is retried): the adapter hands over both results, and every run leaves  *)
(* the test two pieces of evidence with one RunIndex.  The records are     *)
(* listed from some index upward, downward, or both ways in turn.          *)
(***************************************************************************)
\* What the report of such a run holds, in document order.
TwiceFailed ==
    <<CaseOf("a::t", OutcomeFail),
      [CaseOf("a::t", OutcomeFail) EXCEPT !.FailureMessage = "boom"]>>

InitEvidence ==
    /\ tool = "jest"
    /\ suite = <<"a::t", "a::t">>
    /\ runResults = << >>
    /\ aggregatedTests = << >>
    /\ pc = "collect"
    /\ ListIdle
    /\ DetectorIdle
    /\ SessionIdle
    /\ AdapterIdle

\* A run that reports the test twice; its index is next to one in the list.
RecordTwice ==
    /\ pc = "collect"
    /\ Len(runResults) < MaxEvidenceRuns
    /\ \E i \in (1..MaxEvidenceRuns) \ UsedIndices :
          /\ UsedIndices # {} => i + 1 \in UsedIndices \/ i - 1 \in UsedIndices
          /\ LET parsed == Parse(tool, TwiceFailed)
             IN  /\ parsed.ok
                 /\ runResults' = Append(runResults,
                       [RunIndex |-> i, Tests |-> parsed.Tests, Error |-> ""])
    /\ UNCHANGED <<listVars, tool, suite, aggregatedTests, pc, detectorVars, adapterVars, sessionVars>>

NextEvidence == RecordTwice \/ DoAggregate

SpecEvidence == InitEvidence /\ [][NextEvidence]_vars

(***************************************************************************)
(* C7: the result depends on the content of the run list only: whatever    *)
(* the order of the records in the list, whatever the order in which the   *)
(* map is ranged over and whatever the sorts of the evidence leave, the    *)
(* result is the one Aggregate gives for the records in the order of their *)
(* RunIndex, and that is one result.                                       *)
(***************************************************************************)
ResultIgnoresListOrder ==
    pc = "done" =>
        \A result \in Aggregates(ByRunIndex(runResults)) : aggregatedTests = result

(***************************************************************************)
(* C8: the FailureEvidence of an aggregate is in ascending order of        *)
(* RunIndex, whatever the order of the runs in the list; strictly so when  *)
(* no run names the test twice.                                            *)
(***************************************************************************)
EvidenceAscending ==
    pc = "done" =>
        \A t \in Aggregated :
            \A k \in 1..(Len(t.FailureEvidence) - 1) :
                /\ t.FailureEvidence[k].RunIndex <= t.FailureEvidence[k + 1].RunIndex
                /\ (\A p, q \in OccurrencesOf(t.TestID, {OutcomeFail}) : p[1] = q[1] => p = q)
                   => t.FailureEvidence[k].RunIndex < t.FailureEvidence[k + 1].RunIndex

\* A test that failed in a run listed before a failing run of a lower index.
EvidenceAscendingWitness ==
    /\ pc = "done"
    /\ \E t \in Aggregated :
          /\ Len(t.FailureEvidence) >= 2
          /\ \E p, q \in OccurrencesOf(t.TestID, {OutcomeFail}) :
                /\ p[1] < q[1]
                /\ runResults[p[1]].RunIndex > runResults[q[1]].RunIndex

(***************************************************************************)
(* C9: TotalRuns is PassCount plus FailCount, the skips left out, and      *)
(* FlakeRate is FailCount over TotalRuns, or zero when TotalRuns is zero;  *)
(* both are those of the pass and fail outcomes alone.                     *)
(***************************************************************************)
TotalRunsAndFlakeRate ==
    pc = "done" =>
        \A t \in Aggregated :
            LET failCount == Cardinality(OccurrencesOf(t.TestID, {OutcomeFail}))
                ran       == Cardinality(OccurrencesOf(t.TestID, Ran))
            IN  /\ t.TotalRuns = t.PassCount + t.FailCount
                /\ t.TotalRuns = ran
                /\ t.FlakeRate.den > 0
                /\ IF t.TotalRuns > 0
                   THEN t.FlakeRate.num * t.TotalRuns = t.FailCount * t.FlakeRate.den
                   ELSE t.FlakeRate.num = 0
                /\ t.FlakeRate.num * ran = failCount * t.FlakeRate.den

\* A test that passed, failed and was skipped.
TotalRunsAndFlakeRateWitness ==
    /\ pc = "done"
    /\ \E t \in Aggregated :
          /\ t.SkipCount >= 1
          /\ t.PassCount >= 1
          /\ t.FailCount >= 1
          /\ t.FlakeRate.num > 0

(***************************************************************************)
(* C10: AvgDuration is the sum of the durations of the pass and fail       *)
(* occurrences of the test divided by their number, zero when there are    *)
(* none; the duration of a skip occurrence has no part in it.              *)
(***************************************************************************)
AvgDurationOverRanOnly ==
    pc = "done" =>
        \A t \in Aggregated :
            LET ran == OccurrencesOf(t.TestID, Ran)
            IN  t.AvgDuration =
                    IF ran = {} THEN 0 ELSE Quo(DurationOver(ran), Cardinality(ran))

\* A test that ran and was also skipped, the skip having taken time.
AvgDurationOverRanOnlyWitness ==
    /\ pc = "done"
    /\ \E t \in Aggregated :
          /\ t.AvgDuration > 0
          /\ \E p \in OccurrencesOf(t.TestID, {OutcomeSkip}) :
                runResults[p[1]].Tests[p[2]].Duration > 0

(***************************************************************************)
(* DetectSignature on its own: a failure message of up to MaxWords words,  *)
(* one space between two words, is given to the detector.                  *)
(***************************************************************************)
\* Words a failure message is made of: cues of every category, halves of
\* cues of two words, upper case, a word that holds a cue without a word
\* boundary, a word that holds none, and cues written with a character that
\* is no ASCII letter but folds to one: "network" with the KELVIN SIGN for
\* its k, "selector" with the LONG S for its s (named by their code points).
Words ==
    {"timeout", "TIMEOUT", "timed", "out", "selector", "fetch", "failed",
     "stale", "element", "expect", "unexpected", "assert", "boom",
     "networ[U+212A]", "[U+017F]elector"}

Messages == UNION {[1..n -> Words] : n \in 0..MaxWords}

\* The bytes of a message.
MessageBytes(words) == Join([k \in 1..Len(words) |-> Bytes(words[k])])

InitDetect ==
    /\ message \in Messages
    /\ signature = ""
    /\ pc = "detect"
    /\ tool = "jest"
    /\ suite = << >>
    /\ runResults = << >>
    /\ aggregatedTests = << >>
    /\ ListIdle
    /\ SessionIdle
    /\ AdapterIdle

\* classify.DetectSignature(message).
Detect ==
    /\ pc = "detect"
    /\ signature' = detectBytes(MessageBytes(message))
    /\ pc' = "detected"
    /\ UNCHANGED <<listVars, tool, suite, runResults, aggregatedTests, message, sessionVars, adapterVars>>

NextDetect == Detect

SpecDetect == InitDetect /\ [][NextDetect]_vars

(***************************************************************************)
(* C11: DetectSignature gives every message one signature of the closed    *)
(* set: that of the first category, in the order Timeout, Selector,        *)
(* Network, DomDetach, Assertion, of which the message holds a cue, and    *)
(* Unknown for the empty message and for a message that holds no cue.      *)
(***************************************************************************)
\* The cues the words of the model can make up, as runs of neighbouring words.
CuesOf(category) ==
    CASE category = SignatureTimeout   -> {<<"timeout">>, <<"TIMEOUT">>, <<"timed", "out">>}
      [] category = SignatureSelector  -> {<<"selector">>, <<"[U+017F]elector">>}
      [] category = SignatureNetwork   -> {<<"fetch", "failed">>, <<"networ[U+212A]">>}
      [] category = SignatureDOMDetach -> {<<"stale", "element">>}
      [] category = SignatureAssertion -> {<<"expect">>, <<"assert">>}
      [] OTHER -> {}

HoldsCue(words, category) ==
    \E cue \in CuesOf(category) :
        \E j \in 1..(Len(words) - Len(cue) + 1) : SubSeq(words, j, j + Len(cue) - 1) = cue

CategoryOrder ==
    <<SignatureTimeout, SignatureSelector, SignatureNetwork, SignatureDOMDetach,
      SignatureAssertion>>

FirstMatchWins ==
    pc = "detected" =>
        /\ signature \in {SignatureTimeout, SignatureSelector, SignatureNetwork,
                          SignatureDOMDetach, SignatureAssertion, SignatureUnknown}
        /\ \A n \in 1..Len(CategoryOrder) :
              signature = CategoryOrder[n]
                  <=> /\ HoldsCue(message, CategoryOrder[n])
                      /\ \A m \in 1..(n - 1) : ~HoldsCue(message, CategoryOrder[m])
        /\ signature = SignatureUnknown
              <=> \A n \in 1..Len(CategoryOrder) : ~HoldsCue(message, CategoryOrder[n])

\* A message with a cue of Assertion before a cue of Timeout: Timeout.
FirstMatchWinsWitness ==
    /\ pc = "detected"
    /\ message = <<"expect", "timeout">>
    /\ signature = SignatureTimeout

(***************************************************************************)
(* runner.Run and the session of the command around it (execute).          *)
(***************************************************************************)
\* The first two checks of Run alone.
validateConfigNoAdapter(c) ==
    IF c.Runs <= 0 THEN "--runs must be a positive integer"
    ELSE IF Len(c.Command) = 0 THEN "test command is required after --"
    ELSE ""

\* The checks at the head of Run: the error returned, "" when there is none.
validateConfig(c) ==
    IF c.Runs <= 0 THEN "--runs must be a positive integer"
    ELSE IF Len(c.Command) = 0 THEN "test command is required after --"
    ELSE IF c.Adapter = "" THEN "adapter is required"
    ELSE ""

\* fmt.Sprintf("%03d", i) for i >= 1: the decimal digits, padded with zeros to
\* three at least.
RECURSIVE Decimal(_)
Decimal(n) == IF n < 10 THEN <<48 + n>> ELSE Append(Decimal(n \div 10), 48 + (n % 10))

\* The width of "%03d".
padWidth == 3

RECURSIVE ZeroPad(_)
ZeroPad(d) == IF Len(d) >= padWidth THEN d ELSE ZeroPad(<<48>> \o d)

runDirName(n) == ZeroPad(Decimal(n))

\* strings.HasPrefix.
HasPrefix(s, prefix) ==
    /\ Len(Bytes(prefix)) <= Len(Bytes(s))
    /\ SubSeq(Bytes(s), 1, Len(Bytes(prefix))) = Bytes(prefix)

\* The flags by which a command chooses its execution mode itself.
executionModeFlags == {"--runInBand", "--maxWorkers", "-w", "--workerThreads"}

artifactFilename == "jest.json"

\* BuildCommand of the Jest adapter: nothing for the empty command, else the
\* command, --runInBand unless it chooses an execution mode, and the flags
\* that make Jest write its artifact into the run's directory.
BuildCommand(runDir, userCmd) ==
    IF Len(userCmd) = 0 THEN << >>
    ELSE LET hasExecutionMode ==
                 \E k \in 1..Len(userCmd) :
                     \/ \E flag \in executionModeFlags : HasPrefix(userCmd[k], flag)
                     \/ userCmd[k] = "-i"
         IN  userCmd
                 \o (IF hasExecutionMode THEN << >> ELSE <<"--runInBand">>)
                 \o <<"--json", "--outputFile", <<runDir, artifactFilename>>>>

\* BuildCommand of the Cypress adapter: nothing for the empty command, else
\* the command and the JUnit reporter writing into the run's directory.
CypressBuildCommand(runDir, userCmd) ==
    IF Len(userCmd) = 0 THEN << >>
    ELSE userCmd \o <<"--reporter", "junit">>
                 \o <<"--reporter-options", <<"mochaFile=", runDir, "/[hash].xml">>>>

\* cfg.Adapter.BuildCommand.
BuildCommandOf(t, runDir, userCmd) ==
    IF t = "jest" THEN BuildCommand(runDir, userCmd)
    ELSE CypressBuildCommand(runDir, userCmd)

\* A slice of strings: its array, as long as the capacity, and its length.
ElementsOf(slice) == SubSeq(slice.arr, 1, slice.len)

\* BuildCommand appending to the caller's slice itself: the first flag is
\* written into the caller's array when it has room.
callBuildCommandInPlace(t, runDir, caller) ==
    LET built == BuildCommandOf(t, runDir, ElementsOf(caller))
    IN  [result |-> built,
         caller |-> IF caller.len = 0 \/ Len(caller.arr) = caller.len THEN caller
                    ELSE [caller EXCEPT !.arr[caller.len + 1] = built[caller.len + 1]]]

\* A call of BuildCommand with the caller's slice: result is a slice with an
\* array of its own (make and copy), to which the flags are appended; the
\* caller's slice and array are as they were.
callBuildCommand(t, runDir, caller) ==
    [result |-> BuildCommandOf(t, runDir, ElementsOf(caller)),
     caller |-> caller]

\* The record Run appends for a run that executeRun gave up with err.
errorRecord(runIndex, err) == [RunIndex |-> runIndex, Tests |-> << >>, Error |-> err]

\* The error of a run that left no report.  jest: ExpectedArtifact is the
\* file results.json and os.Stat does not find it.  cypress: ExpectedArtifact
\* is the run directory, which is there, and Parse finds no XML file in it.
missingArtifact(t) ==
    IF t = "jest" THEN "expected artifact not found"
    ELSE "failed to parse run results"

\* executeRun leaving the record's RunIndex as Parse returned it, zero.
executeRunIndexUnset(t, runIndex, ended) ==
    IF ended.artifact = "missing"
    THEN errorRecord(runIndex, missingArtifact(t))
    ELSE IF ended.artifact = "garbled"
    THEN errorRecord(runIndex, "failed to parse run results")
    ELSE [RunIndex |-> 0,
          Tests    |-> Parse(t, ArtifactOf(<<"a::t">>, <<ended.artifact>>)).Tests,
          Error    |-> ""]

\* executeRun taking a child that exits non-zero for a failed run.
executeRunCheckingExit(t, runIndex, ended) ==
    IF ended.exit # 0
    THEN errorRecord(runIndex, "command failed")
    ELSE IF ended.artifact = "missing"
    THEN errorRecord(runIndex, missingArtifact(t))
    ELSE IF ended.artifact = "garbled"
    THEN errorRecord(runIndex, "failed to parse run results")
    ELSE [RunIndex |-> runIndex,
          Tests    |-> Parse(t, ArtifactOf(<<"a::t">>, <<ended.artifact>>)).Tests,
          Error    |-> ""]

\* executeRun giving, for an artifact that does not parse, the record of the
\* error together with tests.
executeRunErrorWithTests(t, runIndex, ended) ==
    IF ended.artifact = "missing"
    THEN errorRecord(runIndex, missingArtifact(t))
    ELSE IF ended.artifact = "garbled"
    THEN [RunIndex |-> runIndex,
          Tests    |-> Parse(t, ArtifactOf(<<"a::t">>, <<OutcomeFail>>)).Tests,
          Error    |-> "failed to parse run results"]
    ELSE [RunIndex |-> runIndex,
          Tests    |-> Parse(t, ArtifactOf(<<"a::t">>, <<ended.artifact>>)).Tests,
          Error    |-> ""]

\* executeRun after cmd.Run(), the child's exit status thrown away: the
\* artifact is looked for and parsed, and the record takes the run's index.
executeRunAfterChild(t, runIndex, ended) ==
    IF ended.artifact = "missing"
    THEN errorRecord(runIndex, missingArtifact(t))
    ELSE IF ended.artifact = "garbled"
    THEN errorRecord(runIndex, "failed to parse run results")
    ELSE [RunIndex |-> runIndex,
          Tests    |-> Parse(t, ArtifactOf(<<"a::t">>, <<ended.artifact>>)).Tests,
          Error    |-> ""]

\* The loop going on for one run more than asked for.
runsLeftAndOne(i, c) == i <= c.Runs + 1

\* The condition of Run's for loop: i <= cfg.Runs
runsLeft(i, c) == i <= c.Runs

\* The timeout check with > in the place of >=.
timedOutLate(c, elapsed) == c.Timeout > 0 /\ elapsed > c.Timeout

\* cfg.Timeout > 0 && time.Since(startTime) >= cfg.Timeout
timedOut(c, elapsed) == c.Timeout > 0 /\ elapsed >= c.Timeout

\* The loop without its check of the context.
cancelledNever(done) == FALSE

\* ctx.Err() != nil
cancelled(done) == done

\* The position of name d among the names S in the order of sort.Strings.
rankOf(d, S) == Cardinality({e \in S : LexLess(e, d, 1)})

\* toRemove := dirs[:len(dirs)-keepRuns] of the sorted names: all but the
\* last keepRuns.
toRemoveOf(dirs, keepRuns) ==
    LET n == Cardinality(dirs)
    IN  IF n > keepRuns THEN {d \in dirs : rankOf(d, dirs) < n - keepRuns} ELSE {}

\* cleanupOldRuns(runsDir, keepRuns) on the run directories dirs: the names
\* are sorted as strings and all but the last keepRuns removed in that order.
\* fault is what goes wrong: nothing ("none"), the reading of the directory
\* ("readdir"), the removal of the directory fault.name ("remove"), at which
\* the loop returns with the directories before it removed.
cleanupOldRuns(dirs, keepRuns, fault) ==
    IF fault.kind = "readdir" THEN [dirs |-> dirs, failed |-> TRUE]
    ELSE IF /\ fault.kind = "remove"
            /\ fault.name \in dirs
            /\ rankOf(fault.name, dirs) < Cardinality(dirs) - keepRuns
    THEN [dirs |-> dirs \ {d \in dirs : LexLess(d, fault.name, 1)}, failed |-> TRUE]
    ELSE [dirs |-> dirs \ toRemoveOf(dirs, keepRuns), failed |-> FALSE]

\* Run with a failure of the cleanup returned as its error.
cleanupVerdictFatal(failed) == IF failed THEN "failed to cleanup old runs" ELSE ""

\* What a failure of the cleanup makes of the error Run returns: nothing, the
\* failure is written to stderr only.
cleanupVerdict(failed) == ""

(***************************************************************************)
(* FilterByClassification, SignatureSummary, TopFlakes, buildReport and    *)
(* the exit status of execute.                                             *)
(***************************************************************************)
RECURSIVE FilterByClassification(_, _)
FilterByClassification(tests, class) ==
    IF tests = << >> THEN << >>
    ELSE IF tests[1].Classification = class
         THEN <<tests[1]>> \o FilterByClassification(Tail(tests), class)
         ELSE FilterByClassification(Tail(tests), class)

\* Every signature counted once for each test that has evidence of it.
signatureSummaryByTest(tests) ==
    LET has(k, sig) == \E j \in 1..Len(tests[k].FailureEvidence) :
                           tests[k].FailureEvidence[j].Signature = sig
        sigs == UNION {{tests[k].FailureEvidence[j].Signature :
                           j \in 1..Len(tests[k].FailureEvidence)} : k \in 1..Len(tests)}
    IN  [sig \in sigs |-> Cardinality({k \in 1..Len(tests) : has(k, sig)})]

\* summary[signature]++ for every piece of evidence of every test.
SignatureSummary(tests) ==
    LET places == UNION {{<<k, j>> : j \in 1..Len(tests[k].FailureEvidence)} :
                            k \in 1..Len(tests)}
        sigAt(p) == tests[p[1]].FailureEvidence[p[2]].Signature
    IN  [sig \in {sigAt(p) : p \in places} |->
            Cardinality({p \in places : sigAt(p) = sig})]

\* The first n tests, whatever their classification.
firstTests(tests, n) == IF Len(tests) <= n THEN tests ELSE SubSeq(tests, 1, n)

\* What a call leaves of the program when the slice expression flaky[:n] has
\* a negative n.
SliceBoundsPanic == "panic: runtime error: slice bounds out of range"

\* TopFlakes: flaky when it has no more than n tests, else flaky[:n], which
\* panics for a negative n.
TopFlakes(tests, n) ==
    LET flaky == FilterByClassification(tests, ClassificationFlaky)
    IN  IF Len(flaky) <= n THEN flaky
        ELSE IF n < 0 THEN SliceBoundsPanic
        ELSE SubSeq(flaky, 1, n)

\* FilterByClassification collecting the tests in the caller's array
\* (result := tests[:0]): the tests it returns are written over the first
\* places of the array.
callFilterInPlace(caller, class) ==
    LET result == FilterByClassification(ElementsOf(caller), class)
    IN  [result |-> result,
         caller |-> [caller EXCEPT !.arr = [k \in 1..Len(caller.arr) |->
                                               IF k <= Len(result) THEN result[k]
                                               ELSE caller.arr[k]]]]

\* A call of FilterByClassification with the caller's slice: result is a
\* slice with an array of its own (make), to which the tests are appended;
\* the caller's slice and array are as they were.
callFilterByClassification(caller, class) ==
    [result |-> FilterByClassification(ElementsOf(caller), class),
     caller |-> caller]

\* A call of TopFlakes with the caller's slice: the list is read by
\* FilterByClassification only, and what is returned is the slice that one
\* made, or a slice of its array.
callTopFlakes(caller, n) ==
    [result |-> TopFlakes(ElementsOf(caller), n),
     caller |-> callFilterByClassification(caller, ClassificationFlaky).caller]

topFlakesLimit == 10

buildReport(t, target, runsExecuted, tests) ==
    [built            |-> TRUE,
     Tool             |-> t,
     Target           |-> target,
     RunsExecuted     |-> runsExecuted,
     FlakyCount       |-> Len(FilterByClassification(tests, ClassificationFlaky)),
     StableCount      |-> Len(FilterByClassification(tests, ClassificationStable)),
     DetFailCount     |-> Len(FilterByClassification(tests, ClassificationDeterministicFail)),
     Tests            |-> tests,
     TopFlakes        |-> TopFlakes(tests, topFlakesLimit),
     SignatureSummary |-> SignatureSummary(tests)]

exitSuccess == 0
exitError == 1
exitFlakeFound == 2

\* The exit status with a session that found no test taken for a failure.
exitStatusNoTestsIsError(failOnFlake, rpt) ==
    IF rpt.Tests = << >> THEN exitError
    ELSE IF failOnFlake /\ rpt.FlakyCount > 0 THEN exitFlakeFound
    ELSE exitSuccess

\* The exit status with --fail-on-flake taken as given.
exitStatusIgnoringFlag(failOnFlake, rpt) ==
    IF rpt.FlakyCount > 0 THEN exitFlakeFound ELSE exitSuccess

\* The end of execute: the exit status for a report.
exitStatus(failOnFlake, rpt) ==
    IF failOnFlake /\ rpt.FlakyCount > 0 THEN exitFlakeFound ELSE exitSuccess

(***************************************************************************)
(* A session: Run from its first line to its return, then the rest of      *)
(* execute.  The command is a jest command whose suite is one test case;   *)
(* the signal listener may call cancel() at any moment before the loop     *)
(* has ended.                                                              *)
(***************************************************************************)
Configs ==
    [Runs        : -1..MaxSessionRuns,
     Timeout     : 0..MaxTicks,
     KeepRuns    : 0..MaxKeep,
     Command     : {<< >>, <<"jest">>},
     Adapter     : {"", "jest"},
     FailOnFlake : BOOLEAN]

\* latest/ as an earlier session of two runs left it.
StaleFiles == [latest |-> TRUE, earlier |-> {runDirName(1), runDirName(2)}, runs |-> {},
               removed |-> {}]

\* latest/ is left as it is.
removeNothing(files) == files

\* os.RemoveAll(latestDir) without an error: latest/ and all below it is gone.
removeAll(files) == [NoFiles EXCEPT !.removed = files.removed \cup files.earlier]

\* What the artifact of a run can be after the child: not there, not
\* parsable, or the report of the test case passing or failing.
Artifacts == {"missing", "garbled", OutcomePass, OutcomeFail}

\* The start of Run, in an output directory that an earlier session has
\* used: a first session differs in that os.RemoveAll finds nothing there.
InitSession ==
    /\ cfg \in Configs
    /\ fs = StaleFiles
    /\ pc = "validate"
    /\ tool = "jest"
    /\ suite = <<"a::t">>
    /\ runResults = << >>
    /\ aggregatedTests = << >>
    /\ loopIndex = 0
    /\ clock = 0
    /\ ctxDone = FALSE
    /\ children = 0
    /\ child = NoChild
    /\ runErr = ""
    /\ warnings = {}
    /\ report = NoReport
    /\ exitCode = -1
    /\ ListIdle
    /\ DetectorIdle
    /\ AdapterIdle

\* Run, lines 38-46: the configuration is checked.
Validate ==
    /\ pc = "validate"
    /\ runErr' = validateConfig(cfg)
    /\ pc' = IF runErr' # "" THEN "returned" ELSE "clean"
    /\ UNCHANGED <<listVars, tool, suite, runResults, aggregatedTests, detectorVars, adapterVars, cfg, fs,
                   loopIndex, clock, ctxDone, children, child, warnings, report, exitCode>>

\* os.RemoveAll(latestDir): latest/ is gone, or, when there was one, the
\* removal fails with some of it left and Run returns the error.
Clean ==
    /\ pc = "clean"
    /\ \/ /\ fs' = removeAll(fs)
          /\ pc' = "mkdir"
          /\ UNCHANGED runErr
       \/ /\ fs.latest
          /\ \E left \in (SUBSET fs.earlier) \ {{}} : fs' = [fs EXCEPT !.earlier = left, !.removed = fs.earlier \ left]
          /\ runErr' = "failed to clean output directory"
          /\ pc' = "returned"
    /\ UNCHANGED <<listVars, tool, suite, runResults, aggregatedTests, detectorVars, adapterVars, cfg,
                   loopIndex, clock, ctxDone, children, child, warnings, report, exitCode>>

\* os.MkdirAll(runsDir), then startTime := time.Now() and i := 1.
MakeRunsDir ==
    /\ pc = "mkdir"
    /\ \/ /\ fs' = [fs EXCEPT !.latest = TRUE]
          /\ loopIndex' = 1
          /\ pc' = "check"
          /\ UNCHANGED runErr
       \/ /\ runErr' = "failed to create runs directory"
          /\ pc' = "returned"
          /\ UNCHANGED <<fs, loopIndex>>
    /\ UNCHANGED <<listVars, tool, suite, runResults, aggregatedTests, detectorVars, adapterVars, cfg,
                   clock, ctxDone, children, child, warnings, report, exitCode>>

\* The head of the loop: i <= cfg.Runs, the timeout, the context.
CheckLoop ==
    /\ pc = "check"
    /\ pc' = IF \/ ~runsLeft(loopIndex, cfg)
                \/ timedOut(cfg, clock)
                \/ cancelled(ctxDone)
             THEN "retain" ELSE "rundir"
    /\ child' = NoChild
    /\ UNCHANGED <<listVars, tool, suite, runResults, aggregatedTests, detectorVars, adapterVars, cfg, fs,
                   loopIndex, clock, ctxDone, children, runErr, warnings, report, exitCode>>

\* os.MkdirAll(runDir): the directory of run i, or Run returns the error.
MakeRunDir ==
    /\ pc = "rundir"
    /\ \/ /\ fs' = [fs EXCEPT !.runs = @ \cup {runDirName(loopIndex)}]
          /\ pc' = "setup"
          /\ UNCHANGED runErr
       \/ /\ runErr' = "failed to create run directory"
          /\ pc' = "returned"
          /\ UNCHANGED fs
    /\ UNCHANGED <<listVars, tool, suite, runResults, aggregatedTests, detectorVars, adapterVars, cfg,
                   loopIndex, clock, ctxDone, children, child, warnings, report, exitCode>>

\* executeRun up to cmd.Run(): the command is built and stdout.txt and
\* stderr.txt are created, and the child is started; no command or no file
\* ends the run with a record of the error.  A child is not started under a
\* context that is done: cmd.Run() returns at once and no artifact is found.
Setup ==
    /\ pc = "setup"
    /\ \/ /\ Len(BuildCommand(runDirName(loopIndex), cfg.Command)) = 0
          /\ runResults' = Append(runResults,
                errorRecord(loopIndex, "adapter returned empty command"))
          /\ loopIndex' = loopIndex + 1
          /\ pc' = "check"
          /\ UNCHANGED <<children, child>>
       \/ /\ Len(BuildCommand(runDirName(loopIndex), cfg.Command)) > 0
          /\ runResults' = Append(runResults,
                errorRecord(loopIndex, "failed to create stdout.txt"))
          /\ loopIndex' = loopIndex + 1
          /\ pc' = "check"
          /\ UNCHANGED <<children, child>>
       \/ /\ Len(BuildCommand(runDirName(loopIndex), cfg.Command)) > 0
          /\ ctxDone
          /\ runResults' = Append(runResults,
                executeRunAfterChild(tool, loopIndex,
                    [state |-> "unstarted", exit |-> 1, artifact |-> "missing"]))
          /\ loopIndex' = loopIndex + 1
          /\ pc' = "check"
          /\ UNCHANGED <<children, child>>
       \/ /\ Len(BuildCommand(runDirName(loopIndex), cfg.Command)) > 0
          /\ ~ctxDone
          /\ children' = children + 1
          /\ child' = [state |-> "running"]
          /\ pc' = "child"
          /\ UNCHANGED <<runResults, loopIndex>>
    /\ UNCHANGED <<listVars, tool, suite, aggregatedTests, detectorVars, adapterVars, cfg, fs,
                   clock, ctxDone, runErr, warnings, report, exitCode>>

\* Time passes, from startTime := time.Now() on and as long as the loop can
\* read it.  The clock is read only under a timeout, and only to compare the
\* time elapsed with it: it is followed until it has reached the timeout.
Tick ==
    /\ pc \in {"check", "rundir", "setup", "child", "collect"}
    /\ cfg.Timeout > 0
    /\ clock < cfg.Timeout
    /\ clock' = clock + 1
    /\ UNCHANGED <<listVars, tool, suite, runResults, aggregatedTests, pc, detectorVars, adapterVars, cfg, fs,
                   loopIndex, ctxDone, children, child, runErr, warnings, report, exitCode>>

\* The child ends, by itself or killed through the context, with an exit
\* status and whatever artifact it has written.
ChildExit ==
    /\ pc = "child"
    /\ \E status \in {0, 1}, artifact \in Artifacts :
          child' = [state |-> "ended", exit |-> status, artifact |-> artifact]
    /\ pc' = "collect"
    /\ UNCHANGED <<listVars, tool, suite, runResults, aggregatedTests, detectorVars, adapterVars, cfg, fs,
                   loopIndex, clock, ctxDone, children, runErr, warnings, report, exitCode>>

\* The rest of executeRun and the append of Run's loop.
Collect ==
    /\ pc = "collect"
    /\ runResults' = Append(runResults, executeRunAfterChild(tool, loopIndex, child))
    /\ loopIndex' = loopIndex + 1
    /\ pc' = "check"
    /\ UNCHANGED <<listVars, tool, suite, aggregatedTests, detectorVars, adapterVars, cfg, fs,
                   clock, ctxDone, children, child, runErr, warnings, report, exitCode>>

\* The signal listener: cancel().  After the loop the context is not read.
Cancel ==
    /\ pc \in {"validate", "clean", "mkdir", "check", "rundir", "setup", "child", "collect"}
    /\ ~ctxDone
    /\ ctxDone' = TRUE
    /\ UNCHANGED <<listVars, tool, suite, runResults, aggregatedTests, pc, detectorVars, adapterVars, cfg, fs,
                   loopIndex, clock, children, child, runErr, warnings, report, exitCode>>

\* What can go wrong in cleanupOldRuns: nothing, the reading of runs/, the
\* removal of any one of the directories it removes.
Faults(dirs, keepRuns) ==
    {[kind |-> "none", name |-> << >>], [kind |-> "readdir", name |-> << >>]}
        \cup {[kind |-> "remove", name |-> d] : d \in toRemoveOf(dirs, keepRuns)}

\* After the loop: the cleanup when a limit is set and exceeded, then the
\* return of the Result.
Retain ==
    /\ pc = "retain"
    /\ IF cfg.KeepRuns > 0 /\ Len(runResults) > cfg.KeepRuns
       THEN \E fault \in Faults(fs.runs, cfg.KeepRuns) :
               LET done == cleanupOldRuns(fs.runs, cfg.KeepRuns, fault)
               IN  /\ fs' = [fs EXCEPT !.runs = done.dirs]
                   /\ warnings' = IF done.failed
                                  THEN warnings \cup {"warning: failed to cleanup old runs"}
                                  ELSE warnings
                   /\ runErr' = cleanupVerdict(done.failed)
       ELSE UNCHANGED <<fs, warnings, runErr>>
    /\ pc' = "returned"
    /\ UNCHANGED <<listVars, tool, suite, runResults, aggregatedTests, detectorVars, adapterVars, cfg,
                   loopIndex, clock, ctxDone, children, child, report, exitCode>>

\* execute after runner.Run: the tool-error status for an error, else the
\* aggregation, the report, its files and outputs (a failure of any of them
\* is a warning: the JSON file, the Markdown file, the terminal output and,
\* under --json, the JSON on stdout) and the exit status.  On the way out the
\* deferred cancel() is run.
Finish ==
    /\ pc = "returned"
    /\ IF runErr # ""
       THEN /\ exitCode' = exitError
            /\ UNCHANGED <<aggregatedTests, report, warnings>>
       ELSE /\ aggregatedTests' \in Aggregates(runResults)
            /\ report' = buildReport(tool, cfg.Command, Len(runResults), aggregatedTests')
            /\ \E failed \in SUBSET {"Warning: failed to write JSON report",
                                     "Warning: failed to write Markdown report",
                                     "Warning: failed to render terminal output",
                                     "Warning: failed to marshal JSON"} :
                  warnings' = warnings \cup failed
            /\ exitCode' = exitStatus(cfg.FailOnFlake, report')
    /\ ctxDone' = TRUE
    /\ pc' = "exited"
    /\ UNCHANGED <<listVars, tool, suite, runResults, detectorVars, adapterVars, cfg, fs,
                   loopIndex, clock, children, child, runErr>>

NextSession ==
    \/ Validate \/ Clean \/ MakeRunsDir \/ CheckLoop \/ MakeRunDir \/ Setup
    \/ Tick \/ ChildExit \/ Collect \/ Cancel \/ Retain \/ Finish

SpecSession == InitSession /\ [][NextSession]_vars

(***************************************************************************)
(* The retention of run directories, over sessions short and long: Run at  *)
(* the head of its loop with the last of cfg.Runs runs to come, or none,   *)
(* the runs before it all passed; then that run step by step and the       *)
(* cleanup after the loop.  No timeout is set.                             *)
(***************************************************************************)
\* The runs asked for: a few, or as many as take the names of the run
\* directories beyond the width of their padding.
RunCounts == (1..MaxSessionRuns) \cup {10^padWidth}

\* The directories of the runs of the given indices.
RunDirsOf(indices) == {runDirName(k) : k \in indices}

\* A child that has ended well and left the report of the test passing.
PassedChild == [state |-> "ended", exit |-> 0, artifact |-> OutcomePass]

\* The state of Run at the head of its loop when the runs before have all
\* passed: all of cfg.Runs but the last, or all.
InitRetention ==
    /\ cfg \in [Runs        : RunCounts,
                Timeout     : {0},
                KeepRuns    : 0..MaxKeep,
                Command     : {<<"jest">>},
                Adapter     : {"jest"},
                FailOnFlake : {FALSE}]
    /\ \E done \in (cfg.Runs - 1)..cfg.Runs :
          /\ loopIndex = done + 1
          /\ runResults = [k \in 1..done |-> executeRunAfterChild("jest", k, PassedChild)]
          /\ fs = [latest |-> TRUE, earlier |-> {}, runs |-> RunDirsOf(1..done), removed |-> {}]
          /\ children = done
          /\ child = IF done = 0 THEN NoChild ELSE PassedChild
    /\ pc = "check"
    /\ tool = "jest"
    /\ suite = <<"a::t">>
    /\ aggregatedTests = << >>
    /\ clock = 0
    /\ ctxDone = FALSE
    /\ runErr = ""
    /\ warnings = {}
    /\ report = NoReport
    /\ exitCode = -1
    /\ ListIdle
    /\ DetectorIdle
    /\ AdapterIdle

NextRetention ==
    \/ CheckLoop \/ MakeRunDir \/ Setup \/ ChildExit \/ Collect \/ Cancel \/ Retain

SpecRetention == InitRetention /\ [][NextRetention]_vars

(***************************************************************************)
(* What a session shows, read from its state.                              *)
(***************************************************************************)
CleanupWarning == "warning: failed to cleanup old runs"

\* Run has returned, to execute or beyond.
RunReturned == pc \in {"returned", "exited"}

\* Run has returned a Result and no error after entering its loop.
GaveResult == RunReturned /\ runErr = "" /\ loopIndex >= 1

LastRecord == runResults[Len(runResults)]

(***************************************************************************)
(* C12: with a run count that is not positive, an empty command or no      *)
(* adapter, Run returns an error, and nothing is done before it: no run is *)
(* attempted, no child is started, the output directory is neither removed *)
(* nor created.                                                            *)
(***************************************************************************)
BadConfig == cfg.Runs <= 0 \/ cfg.Command = << >> \/ cfg.Adapter = ""

RejectsBeforeActing ==
    /\ [](BadConfig /\ pc # "validate" => runErr # "" /\ loopIndex = 0)
    /\ [][BadConfig => /\ fs' = fs
                       /\ children' = children
                       /\ runResults' = runResults]_vars

\* A session without adapter has ended with the tool-error status and the
\* directory of the earlier session is as it was.
RejectsBeforeActingWitness ==
    /\ pc = "exited"
    /\ cfg.Runs >= 1
    /\ cfg.Command # << >>
    /\ cfg.Adapter = ""
    /\ fs = StaleFiles
    /\ children = 0
    /\ exitCode = exitError

(***************************************************************************)
(* C13: under a timeout the head of the loop reads the time elapsed before  *)
(* every run: when it has reached the timeout there, the run is not        *)
(* started and no run is started after; a run that was started before is   *)
(* left to end and is recorded, and the runs executed are the runs         *)
(* started.                                                                *)
(***************************************************************************)
TimeoutStopsTheLoop ==
    /\ [][/\ (pc = "check" /\ cfg.Timeout > 0 /\ clock >= cfg.Timeout => pc' \in {"check", "retain"})
          /\ (pc' = "rundir" => pc \in {"check", "rundir"})
          /\ (pc \in {"retain", "returned", "exited"} =>
                 /\ pc' \in {"retain", "returned", "exited"}
                 /\ runResults' = runResults
                 /\ children' = children)]_vars
    /\ [](pc \in {"rundir", "setup", "child", "collect"} => Len(runResults) = loopIndex - 1)
    /\ [](GaveResult => Len(runResults) = loopIndex - 1)
    /\ [](pc = "exited" /\ runErr = "" => report.RunsExecuted = Len(runResults))

\* Three runs were asked for; the timeout elapsed while the second was
\* running, which was recorded, and the third was never started.
TimeoutStopsTheLoopWitness ==
    /\ pc = "returned"
    /\ runErr = ""
    /\ ~ctxDone
    /\ cfg.Runs = 3
    /\ cfg.Timeout = 2
    /\ clock >= cfg.Timeout
    /\ Len(runResults) = 2
    /\ children = 2
    /\ loopIndex = 3

(***************************************************************************)
(* C14: the loop reads the cancellation at its head only: when the context *)
(* is done there, the run is not started and the loop ends; a run that is  *)
(* in executeRun when the cancellation comes is recorded all the same; no  *)
(* child is started once the context is done.                              *)
(***************************************************************************)
CancelAtBoundaries ==
    [][/\ (pc = "check" /\ ctxDone => pc' \in {"check", "retain"})
       /\ (pc = "retain" => pc' \in {"retain", "returned"} /\ runResults' = runResults)
       /\ (pc \in {"setup", "child", "collect"} =>
              \/ pc' \in {"setup", "child", "collect"}
              \/ /\ pc' = "check"
                 /\ Len(runResults') = Len(runResults) + 1
                 /\ runResults'[Len(runResults')].RunIndex = loopIndex)
       /\ (ctxDone => children' = children)]_vars

\* Every run that was started ran a child and was recorded, and the
\* cancellation ended the session before the runs asked for were done.
CancelAtBoundariesWitness ==
    /\ pc = "returned"
    /\ runErr = ""
    /\ ctxDone
    /\ cfg.Timeout = 0
    /\ Len(runResults) >= 1
    /\ Len(runResults) < cfg.Runs
    /\ children = Len(runResults)

(***************************************************************************)
(* C15: a run that cannot be set up, leaves no artifact or cannot be       *)
(* parsed is recorded with an error and no tests, and never ends the       *)
(* session: once in its loop, Run returns a Result with a record for every *)
(* run it began.                                                           *)
(***************************************************************************)
BadRunNeverAborts ==
    /\ \A k \in 1..Len(runResults) :
          runResults[k].Error # "" => runResults[k].Tests = << >>
    /\ RunReturned /\ loopIndex >= 1 =>
          /\ runErr = ""
          /\ Len(runResults) = loopIndex - 1

(***************************************************************************)
(* C16: the record of a run whose child has ended depends on the artifact  *)
(* alone, not on the exit status: tests and no error when the artifact is  *)
(* there and parses, an error and no tests when it is not.                 *)
(***************************************************************************)
ExitStatusIgnored ==
    /\ pc = "collect" => child.state = "ended"
    /\ pc = "check" /\ child.state = "ended" =>
          /\ LastRecord.RunIndex = loopIndex - 1
          /\ IF child.artifact \in {OutcomePass, OutcomeFail}
             THEN /\ LastRecord.Error = ""
                  /\ LastRecord.Tests = <<CaseOf("a::t", child.artifact)>>
             ELSE /\ LastRecord.Error # ""
                  /\ LastRecord.Tests = << >>

\* A child that exited non-zero and left the report of a failed test.
ExitStatusIgnoredWitness ==
    /\ pc = "check"
    /\ child.state = "ended"
    /\ child.exit = 1
    /\ child.artifact = OutcomeFail
    /\ LastRecord.Error = ""
    /\ LastRecord.Tests[1].Outcome = OutcomeFail

(***************************************************************************)
(* C17: the k-th record of the list is that of run k, the runs executed    *)
(* are the records of the list, and they are no more than the runs asked   *)
(* for.                                                                    *)
(***************************************************************************)
RecordsInExecutionOrder ==
    /\ \A k \in 1..Len(runResults) : runResults[k].RunIndex = k
    /\ loopIndex >= 1 => Len(runResults) <= cfg.Runs
    /\ GaveResult => Len(runResults) = loopIndex - 1
    /\ report.built => report.RunsExecuted = Len(runResults)

\* Three runs: one recorded with an error, one with tests among them.
RecordsInExecutionOrderWitness ==
    /\ pc = "exited"
    /\ report.built
    /\ Len(runResults) = 3
    /\ \E k \in 1..3 : runResults[k].Error # ""
    /\ \E k \in 1..3 : runResults[k].Error = ""

(***************************************************************************)
(* C18: after the loop, with a limit KeepRuns > 0 and more run directories *)
(* than the limit, the directories left are those of the KeepRuns highest  *)
(* run indices, whatever the number of runs, and with KeepRuns = 0 they    *)
(* are all left.                                                           *)
(***************************************************************************)
RetentionKeepsHighest ==
    pc = "returned" /\ runErr = "" /\ CleanupWarning \notin warnings =>
        LET n == Len(runResults)
        IN  fs.runs = IF cfg.KeepRuns > 0 /\ n > cfg.KeepRuns
                      THEN RunDirsOf((n - cfg.KeepRuns + 1)..n)
                      ELSE RunDirsOf(1..n)

(***************************************************************************)
(* C19: a failure of the cleanup is a warning and nothing more: Run        *)
(* returns no error, and the Result holds the records of all the runs.     *)
(***************************************************************************)
CleanupFailureNotFatal ==
    CleanupWarning \in warnings =>
        /\ runErr = ""
        /\ Len(runResults) = loopIndex - 1
        /\ \A k \in 1..Len(runResults) : runResults[k].RunIndex = k
        /\ pc = "exited" => /\ exitCode # exitError
                            /\ report.built
                            /\ report.RunsExecuted = Len(runResults)

\* The cleanup failed at its second removal: one directory is gone, more
\* are left than the limit, and the report is of all three runs.
CleanupFailureNotFatalWitness ==
    /\ pc = "exited"
    /\ CleanupWarning \in warnings
    /\ cfg.KeepRuns = 1
    /\ fs.runs = RunDirsOf({2, 3})
    /\ Len(runResults) = 3
    /\ report.RunsExecuted = Len(runResults)

(***************************************************************************)
(* C20: a session all of whose runs were recorded with an error ends       *)
(* with no aggregate, a report of zero flaky, stable and failing tests     *)
(* and of the runs executed, and the success status.                       *)
(***************************************************************************)
AllErrorsStillReport ==
    (/\ pc = "exited"
     /\ GaveResult
     /\ Len(runResults) >= 1
     /\ \A k \in 1..Len(runResults) : runResults[k].Error # "")
    => /\ aggregatedTests = << >>
       /\ report.built
       /\ report.FlakyCount = 0
       /\ report.StableCount = 0
       /\ report.DetFailCount = 0
       /\ report.RunsExecuted = Len(runResults)
       /\ exitCode = exitSuccess

\* Two runs and more, each recorded with an error, under --fail-on-flake.
AllErrorsStillReportWitness ==
    /\ pc = "exited"
    /\ cfg.FailOnFlake
    /\ runErr = ""
    /\ Len(runResults) >= 2
    /\ \A k \in 1..Len(runResults) : runResults[k].Error # ""
    /\ report.built
    /\ exitCode = exitSuccess

(***************************************************************************)
(* C21: the command exits with 2 exactly when Run has returned a Result,   *)
(* some aggregate is Flaky and --fail-on-flake is set; with 0 when Run has *)
(* returned a Result and no aggregate is Flaky or the flag is not set;     *)
(* with 1 for a run count that is not positive, no command or no adapter,  *)
(* and then without any run, child or record.                              *)
(***************************************************************************)
SomeFlaky == \E t \in Aggregated : t.Classification = ClassificationFlaky

ExitStatusRule ==
    pc = "exited" =>
        /\ exitCode \in {exitSuccess, exitError, exitFlakeFound}
        /\ exitCode = exitFlakeFound <=> GaveResult /\ cfg.FailOnFlake /\ SomeFlaky
        /\ GaveResult /\ ~(cfg.FailOnFlake /\ SomeFlaky) => exitCode = exitSuccess
        /\ BadConfig => /\ exitCode = exitError
                        /\ loopIndex = 0
                        /\ children = 0
                        /\ runResults = << >>

\* A session of a run that passed and a run that failed, under
\* --fail-on-flake, has ended with the status for flakes.
ExitStatusRuleWitness ==
    /\ pc = "exited"
    /\ cfg.FailOnFlake
    /\ exitCode = exitFlakeFound
    /\ \E j, k \in 1..Len(runResults) :
          /\ runResults[j].Error = "" /\ runResults[j].Tests[1].Outcome = OutcomePass
          /\ runResults[k].Error = "" /\ runResults[k].Tests[1].Outcome = OutcomeFail

(***************************************************************************)
(* An adapter on one run: BuildCommand on the base command of a caller,    *)
(* the child leaving its files in the run directory, Parse on them.        *)
(***************************************************************************)
\* The base commands: none, and Jest and Cypress commands with and without
\* an argument that chooses the execution mode.
Commands ==
    {<< >>, <<"jest">>, <<"npx", "jest", "--ci">>, <<"jest", "--runInBand">>,
     <<"jest", "--maxWorkers=2">>, <<"jest", "-w4">>, <<"jest", "-i">>,
     <<"npx", "cypress", "run">>}

\* The slices a caller can hold a base command in: with no capacity beyond
\* its length, or with room for one more element.
SlicesOf(command) ==
    {[arr |-> command, len |-> Len(command)],
     [arr |-> Append(command, ""), len |-> Len(command)]}

\* The test cases a file can report.
Cases ==
    {CaseOf(id, o) : id \in {"a::t", "Z::t"}, o \in {OutcomePass, OutcomeFail}}
        \cup {CaseOf("", OutcomePass)}

\* What a file can report: no test case, or some in the order of the document.
Documents == UNION {[1..n -> Cases] : n \in 0..MaxCases}

\* The report of Jest with the assertion results cases.
JestFile(cases) == [root |-> "json", suites |-> 1, cases |-> cases]

\* The files an adapter reads in a run directory: jest.json, or the *.xml.
ArtifactNames(t) == IF t = "jest" THEN {artifactFilename} ELSE {"a.xml", "B.xml"}

\* What a child can leave in the run directory.  jest.json is any document.
\* A *.xml file is a <testsuites> document with a suite, its test cases any
\* document; a <testsuites> document with no suite in it; or a <testsuite>
\* document with one test case or none.
ArtifactSets(t) ==
    LET JestFiles == {JestFile(d) : d \in Documents}
        XmlFiles  == {SuitesFile(d) : d \in Documents}
                         \cup {[root |-> "testsuites", suites |-> 0, cases |-> << >>]}
                         \cup {SuiteFile(d) : d \in {e \in Documents : Len(e) <= 1}}
    IN  UNION {[names -> IF t = "jest" THEN JestFiles ELSE XmlFiles] :
                  names \in SUBSET ArtifactNames(t)}

\* The test cases of the files names, file after file.
RECURSIVE CasesIn(_, _)
CasesIn(files, names) ==
    IF names = << >> THEN << >>
    ELSE files[names[1]].cases \o CasesIn(files, SubSeq(names, 2, Len(names)))

\* Parse of the Jest adapter on a run directory: jest.json must be there.
ParseJestDir(files) ==
    IF artifactFilename \notin DOMAIN files THEN NotParsed
    ELSE ParseJest(files[artifactFilename].cases)

\* Parse of the Cypress adapter on a run directory.  xmlFiles is what Glob
\* returned and mapOrder the keys of testMap as the range over it gives
\* them; a directory without file, a file parseXMLFile gives up and a test
\* case for which buildTestID gives the empty identity are errors, a file
\* without test case that it reads adds nothing.
ParseCypressDir(files, xmlFiles, mapOrder) ==
    IF Len(xmlFiles) = 0 THEN NotParsed
    ELSE IF \E k \in 1..Len(xmlFiles) : ~parseXMLFile(files[xmlFiles[k]]).ok THEN NotParsed
    ELSE IF "" \in TestIDsOf(CasesIn(files, xmlFiles)) THEN NotParsed
    ELSE [ok |-> TRUE,
          Tests |-> cypressTests(CasesIn(files, sortStrings(xmlFiles)), mapOrder)]

\* The orders in which Glob can list the files and the map be ranged over.
GlobOrders(files) == MapOrders(DOMAIN files)

KeyOrders(files) ==
    MapOrders(UNION {TestIDsOf(files[name].cases) : name \in DOMAIN files})

\* Every result Parse can return on the files.
ParsesOf(t, files) ==
    IF t = "jest" THEN {ParseJestDir(files)}
    ELSE {ParseCypressDir(files, xmlFiles, mapOrder) :
              xmlFiles \in GlobOrders(files), mapOrder \in KeyOrders(files)}

InitAdapter ==
    /\ tool \in Tools
    /\ \E command \in Commands : baseCmd \in SlicesOf(command)
    /\ cmdArgs = << >>
    /\ artifacts = << >>
    /\ parseResult = NotParsed
    /\ pc = "build"
    /\ suite = << >>
    /\ runResults = << >>
    /\ aggregatedTests = << >>
    /\ ListIdle
    /\ DetectorIdle
    /\ SessionIdle

\* cfg.Adapter.BuildCommand(runDir, cfg.Command), for the first run.
Build ==
    /\ pc = "build"
    /\ LET call == callBuildCommand(tool, runDirName(1), baseCmd)
       IN  /\ cmdArgs' = call.result
           /\ baseCmd' = call.caller
    /\ pc' = "run"
    /\ UNCHANGED <<listVars, tool, suite, runResults, aggregatedTests, detectorVars, sessionVars,
                   artifacts, parseResult>>

\* The child runs and leaves its files.
Child ==
    /\ pc = "run"
    /\ Len(cmdArgs) > 0
    /\ artifacts' \in ArtifactSets(tool)
    /\ pc' = "parse"
    /\ UNCHANGED <<listVars, tool, suite, runResults, aggregatedTests, detectorVars, sessionVars,
                   baseCmd, cmdArgs, parseResult>>

\* cfg.Adapter.Parse(runDir).
ParseRun ==
    /\ pc = "parse"
    /\ parseResult' \in ParsesOf(tool, artifacts)
    /\ pc' = "parsed"
    /\ UNCHANGED <<listVars, tool, suite, runResults, aggregatedTests, detectorVars, sessionVars,
                   baseCmd, cmdArgs, artifacts>>

NextAdapter ==
    \/ Build
    \/ Child
    \/ ParseRun

SpecAdapter == InitAdapter /\ [][NextAdapter]_vars

(***************************************************************************)
(* What a run directory holds, read from the state.                        *)
(***************************************************************************)
\* The files in ascending order of their names.
FilesInNameOrder ==
    CHOOSE o \in MapOrders(DOMAIN artifacts) :
        \A i, j \in 1..Len(o) : i < j => StringLess(o[i], o[j])

\* The test cases as they are observed: file after file, each in the order
\* of its document.
Observed == CasesIn(artifacts, FilesInNameOrder)

\* The last observed test case of the identity id.
LastObserved(id) ==
    LET places == {k \in 1..Len(Observed) : Observed[k].TestID = id}
    IN  Observed[CHOOSE k \in places : \A m \in places : m <= k]

ParsedTests == parseResult.Tests

ParseSucceeded == pc = "parsed" /\ parseResult.ok

(***************************************************************************)
(* C22: what Parse of either adapter reports for an identity is the last   *)
(* observed test case of that identity, and every identity observed is     *)
(* reported.                                                               *)
(***************************************************************************)
LastOccurrenceWins ==
    ParseSucceeded =>
        /\ \A k \in 1..Len(ParsedTests) :
              ParsedTests[k] = LastObserved(ParsedTests[k].TestID)
        /\ TestIDsOf(ParsedTests) = TestIDsOf(Observed)

(***************************************************************************)
(* C23: the tests Parse of either adapter returns name every identity at   *)
(* most once.                                                              *)
(***************************************************************************)
OneOutcomePerIdentity ==
    ParseSucceeded =>
        \A j, k \in 1..Len(ParsedTests) :
            j # k => ParsedTests[j].TestID # ParsedTests[k].TestID

(***************************************************************************)
(* C24: BuildCommand of either adapter leaves the caller's slice and its   *)
(* array as they were, returns nothing exactly for the empty base command, *)
(* and else the base command followed by the flags of the adapter.         *)
(***************************************************************************)
JestFlags == <<"--json", "--outputFile", <<runDirName(1), "jest.json">>>>

CypressFlags ==
    <<"--reporter", "junit", "--reporter-options",
      <<"mochaFile=", runDirName(1), "/[hash].xml">>>>

\* flags are the flags injected by the adapter t.
Injected(t, flags) ==
    IF t = "jest"
    THEN \/ Len(flags) = 3 /\ flags = JestFlags
         \/ Len(flags) = 4 /\ flags = <<"--runInBand">> \o JestFlags
    ELSE Len(flags) = 4 /\ flags = CypressFlags

BuildKeepsBase ==
    [][pc = "build" /\ pc' = "run" =>
          LET base == ElementsOf(baseCmd)
          IN  /\ baseCmd' = baseCmd
              /\ cmdArgs' = << >> <=> base = << >>
              /\ base # << >> =>
                    /\ Len(cmdArgs') > Len(base)
                    /\ SubSeq(cmdArgs', 1, Len(base)) = base
                    /\ Injected(tool, SubSeq(cmdArgs', Len(base) + 1, Len(cmdArgs')))]_vars

\* The Jest adapter has built the command of a caller whose slice has room
\* for one more element, and whose command chooses its execution mode.
BuildKeepsBaseWitness ==
    /\ pc = "run"
    /\ tool = "jest"
    /\ baseCmd = [arr |-> <<"jest", "--maxWorkers=2", "">>, len |-> 2]
    /\ cmdArgs = <<"jest", "--maxWorkers=2">> \o JestFlags

(***************************************************************************)
(* C25: the tests of a successful Parse are in ascending order of their    *)
(* identities, and they are the same for every order in which the files    *)
(* are listed and the test cases collected are ranged over.                *)
(***************************************************************************)
ParseOrderIsFixed ==
    ParseSucceeded =>
        /\ \A k \in 1..(Len(ParsedTests) - 1) :
              ~StringLess(ParsedTests[k + 1].TestID, ParsedTests[k].TestID)
        /\ \A again \in ParsesOf(tool, artifacts) : again = parseResult

\* Two files of the Cypress adapter, the one that sorts last listing the
\* identities in descending order, the other one with an identity again.
ParseOrderIsFixedWitness ==
    /\ ParseSucceeded
    /\ tool = "cypress"
    /\ DOMAIN artifacts = {"a.xml", "B.xml"}
    /\ Len(artifacts["a.xml"].cases) = 2
    /\ artifacts["a.xml"].cases[1].TestID = "a::t"
    /\ artifacts["a.xml"].cases[2].TestID = "Z::t"
    /\ artifacts["B.xml"].cases = <<CaseOf("a::t", OutcomeFail)>>
    /\ artifacts["a.xml"].cases[1].Outcome = OutcomePass
    /\ Len(ParsedTests) = 2
    /\ ParsedTests[1].TestID = "Z::t"
    /\ ParsedTests[2] = CaseOf("a::t", OutcomePass)

(***************************************************************************)
(* FilterByClassification and TopFlakes called on their own, with a slice  *)
(* of aggregates the caller holds: any list of up to MaxListed of the      *)
(* aggregates that Aggregate gives for some sessions of one to three runs. *)
(***************************************************************************)
Classifications ==
    {ClassificationFlaky, ClassificationStable, ClassificationDeterministicFail}

\* Run lists of the suite a::t, Z::t: one in which a::t fails and passes and
\* Z::t passes, one in which both fail and pass, one in which a::t fails
\* and Z::t is flaky with another rate.
ListedSessions ==
    LET run(i, a, z) ==
            [RunIndex |-> i, Error |-> "",
             Tests    |-> Parse("cypress", ArtifactOf(<<"a::t", "Z::t">>, <<a, z>>)).Tests]
    IN  {<<run(1, OutcomeFail, OutcomePass), run(2, OutcomePass, OutcomePass)>>,
         <<run(1, OutcomeFail, OutcomePass), run(2, OutcomePass, OutcomeFail)>>,
         <<run(1, OutcomeFail, OutcomeFail), run(2, OutcomeFail, OutcomePass),
           run(3, OutcomeFail, OutcomePass)>>}

\* The aggregates of those sessions.
ListedTests ==
    UNION {{result[k] : k \in 1..Len(result)} :
              result \in UNION {Aggregates(runs) : runs \in ListedSessions}}

InitFilter ==
    /\ \E n \in 0..MaxListed :
          \E list \in [1..n -> ListedTests] : listed = [arr |-> list, len |-> n]
    /\ picked = NoCall
    /\ pc = "listed"
    /\ tool = "cypress"
    /\ suite = <<"a::t", "Z::t">>
    /\ runResults = << >>
    /\ aggregatedTests = << >>
    /\ DetectorIdle
    /\ SessionIdle
    /\ AdapterIdle

\* classify.FilterByClassification(listed, class).
CallFilter ==
    /\ pc = "listed"
    /\ \E class \in Classifications :
          LET call == callFilterByClassification(listed, class)
          IN  /\ picked' = [fn |-> "FilterByClassification", class |-> class, n |-> 0,
                            result |-> call.result]
              /\ listed' = call.caller
    /\ pc' = "picked"
    /\ UNCHANGED <<tool, suite, runResults, aggregatedTests, detectorVars, sessionVars,
                   adapterVars>>

\* classify.TopFlakes(listed, n), for an n that is negative too.
CallTopFlakes ==
    /\ pc = "listed"
    /\ \E n \in (-1)..MaxListed :
          LET call == callTopFlakes(listed, n)
          IN  /\ picked' = [fn |-> "TopFlakes", class |-> ClassificationFlaky, n |-> n,
                            result |-> call.result]
              /\ listed' = call.caller
    /\ pc' = "picked"
    /\ UNCHANGED <<tool, suite, runResults, aggregatedTests, detectorVars, sessionVars,
                   adapterVars>>

NextFilter == CallFilter \/ CallTopFlakes

SpecFilter == InitFilter /\ [][NextFilter]_vars

\* The tests of the classification, place after place.
Selected(list, class) ==
    LET ofClass(t) == t.Classification = class
    IN  SelectSeq(list, ofClass)

(***************************************************************************)
(* C26: TopFlakes(tests, K) for K >= 0 returns the first min(K, number of  *)
(* Flaky tests) elements of the Flaky tests of the list in their order in  *)
(* the list, FilterByClassification returns the tests of the               *)
(* classification in their order in the list, and either call leaves the   *)
(* caller's slice and its array as they were.                              *)
(***************************************************************************)
TopFlakesIsPrefix ==
    [][pc = "listed" /\ pc' = "picked" =>
          LET list  == ElementsOf(listed)
              flaky == Selected(list, ClassificationFlaky)
          IN  /\ listed' = listed
              /\ picked'.fn = "FilterByClassification" =>
                    picked'.result = Selected(list, picked'.class)
              /\ picked'.fn = "TopFlakes" /\ picked'.n >= 0 =>
                    picked'.result = SubSeq(flaky, 1, Min(picked'.n, Len(flaky)))]_vars

\* TopFlakes was asked for one test of a list that has a test that is not
\* Flaky before two that are, and returned the first of the two.
TopFlakesIsPrefixWitness ==
    /\ pc = "picked"
    /\ picked.fn = "TopFlakes"
    /\ picked.n = 1
    /\ listed.len = 3
    /\ listed.arr[1].Classification = ClassificationDeterministicFail
    /\ listed.arr[2].Classification = ClassificationFlaky
    /\ listed.arr[3].Classification = ClassificationFlaky
    /\ listed.arr[3] # listed.arr[2]
    /\ picked.result = <<listed.arr[2]>>

(***************************************************************************)
(* C27: from the start of run 1 on, latest/runs holds no run directory of  *)
(* an earlier session: every run directory there, also after Run has       *)
(* returned, is one this session made for a run it started.                *)
(***************************************************************************)
CleanStart ==
    loopIndex >= 1 =>
        /\ fs.earlier = {}
        /\ fs.runs \subseteq RunDirsOf(1..Min(loopIndex, cfg.Runs))

\* Run has returned its Result with run directories of its own in a place
\* where an earlier session had left some.
CleanStartWitness ==
    /\ GaveResult
    /\ fs.removed # {}
    /\ fs.runs # {}

(***************************************************************************)
(* C28: every aggregate has as many pieces of FailureEvidence as its       *)
(* FailCount says, and the counts of SignatureSummary over the result add  *)
(* up to the FailCount of all tests together, every failure of the runs    *)
(* being counted under the one signature of its message.                   *)
(***************************************************************************)
RECURSIVE SumOfCounts(_, _)
SumOfCounts(summary, sigs) ==
    IF sigs = {} THEN 0
    ELSE LET sig == CHOOSE x \in sigs : TRUE
         IN  summary[sig] + SumOfCounts(summary, sigs \ {sig})

RECURSIVE TotalFailCount(_)
TotalFailCount(tests) ==
    IF tests = << >> THEN 0 ELSE tests[1].FailCount + TotalFailCount(Tail(tests))

\* The failures of the runs: run k reports its j-th test as failed.
Failures ==
    {p \in UNION {{<<k, j>> : j \in 1..Len(runResults[k].Tests)} : k \in 1..Len(runResults)} :
        runResults[p[1]].Tests[p[2]].Outcome = OutcomeFail}

SignatureOfFailure(p) == DetectSignature(runResults[p[1]].Tests[p[2]].FailureMessage)

EvidencePerFailure ==
    pc = "done" =>
        LET summary == SignatureSummary(aggregatedTests)
        IN  /\ \A t \in Aggregated : Len(t.FailureEvidence) = t.FailCount
            /\ SumOfCounts(summary, DOMAIN summary) = TotalFailCount(aggregatedTests)
            /\ DOMAIN summary = {SignatureOfFailure(p) : p \in Failures}
            /\ \A sig \in DOMAIN summary :
                  summary[sig] = Cardinality({p \in Failures : SignatureOfFailure(p) = sig})

\* Failures of two signatures, one of them met more than once.
EvidencePerFailureWitness ==
    /\ pc = "done"
    /\ LET summary == SignatureSummary(aggregatedTests)
       IN  /\ Cardinality(DOMAIN summary) >= 2
           /\ \E sig \in DOMAIN summary : summary[sig] >= 2

(***************************************************************************)
(* C29: a record of Run has an error or tests, never both: a record with   *)
(* an Error has no Tests, so it adds nothing to the pass, fail and skip    *)
(* counts of Aggregate, which are those of the records without error,      *)
(* while RunsExecuted counts it as a run like the others.                  *)
(***************************************************************************)
WithoutError(record) == record.Error = ""

Errored == {k \in 1..Len(runResults) : ~WithoutError(runResults[k])}

\* The pass, fail and skip counts of the aggregates, by identity.
CountsOf(tests) ==
    {[TestID    |-> tests[k].TestID,
      PassCount |-> tests[k].PassCount,
      FailCount |-> tests[k].FailCount,
      SkipCount |-> tests[k].SkipCount] : k \in 1..Len(tests)}

ErrorOrTests ==
    /\ \A k \in Errored : Len(runResults[k].Tests) = 0
    /\ report.built =>
          /\ report.RunsExecuted = Len(runResults)
          /\ \A sound \in Aggregates(SelectSeq(runResults, WithoutError)) :
                CountsOf(aggregatedTests) = CountsOf(sound)
          /\ \A t \in Aggregated :
                t.PassCount + t.FailCount + t.SkipCount
                    = Len(runResults) - Cardinality(Errored)

\* A report over three runs, one of them recorded with an error, the test
\* counted in the two others.
ErrorOrTestsWitness ==
    /\ pc = "exited"
    /\ report.built
    /\ report.RunsExecuted = 3
    /\ Cardinality(Errored) = 1
    /\ \E t \in Aggregated : t.PassCount + t.FailCount = 2

(***************************************************************************)
(* Run under fair scheduling, from its first line to its return: once in   *)
(* its loop it takes its next step, and a child that has been started      *)
(* ends.  A signal or the passing of time may or may not come.             *)
(***************************************************************************)
\* The steps of Run from the head of its loop to its return.
LoopStep == CheckLoop \/ MakeRunDir \/ Setup \/ Collect \/ Retain

\* The steps of Run and of what runs beside it.
NextRun ==
    \/ Validate \/ Clean \/ MakeRunsDir \/ CheckLoop \/ MakeRunDir \/ Setup
    \/ Tick \/ ChildExit \/ Collect \/ Cancel \/ Retain

SpecSessionFair ==
    /\ InitSession
    /\ [][NextRun]_vars
    /\ WF_vars(LoopStep)
    /\ WF_vars(ChildExit)

(***************************************************************************)
(* C30: once in its loop Run returns; without a timeout, without           *)
(* cancellation and without a run directory that cannot be created it      *)
(* returns a Result of exactly cfg.Runs runs; in every case it starts at   *)
(* most cfg.Runs runs, and after it has left the loop it starts no run.    *)
(***************************************************************************)
InLoop == pc \in {"check", "rundir", "setup", "child", "collect"}

\* The runs the loop has started: those recorded and the one under way.
RunsStarted == Len(runResults) + (IF pc \in {"rundir", "setup", "child", "collect"} THEN 1 ELSE 0)

LoopTerminates ==
    /\ InLoop ~> RunReturned
    /\ [](pc = "returned" /\ runErr = "" /\ loopIndex >= 1 /\ cfg.Timeout <= 0 /\ ~ctxDone
             => Len(runResults) = cfg.Runs /\ loopIndex = cfg.Runs + 1)
    /\ [](loopIndex >= 1 => RunsStarted <= cfg.Runs /\ children <= cfg.Runs)
    /\ [][~InLoop /\ loopIndex >= 1 => /\ ~InLoop'
                                      /\ runResults' = runResults
                                      /\ children' = children
                                      /\ loopIndex' = loopIndex
                                      /\ fs'.runs \subseteq fs.runs]_vars

\* Run has returned the Result of all the runs asked for, the most of the
\* model, with no timeout set and no cancellation.
LoopTerminatesWitness ==
    /\ pc = "returned"
    /\ runErr = ""
    /\ cfg.Timeout = 0
    /\ ~ctxDone
    /\ cfg.Runs = MaxSessionRuns
    /\ Len(runResults) = cfg.Runs
    /\ children = cfg.Runs

====
